---- MODULE Spec2Model ----
(***************************************************************************)
(* Order book state engine and feed synchronisation of                     *)
(* hft-trading-system: OrderBook (order_book.hpp / order_book.cpp),        *)
(* SymbolConfig::StringToFixed (types.hpp), FastJsonParser                 *)
(* (binance_messages.hpp), BinanceClient::HandleMessage /                  *)
(* FetchDepthSnapshot (binance_client.cpp) and the depth-update handler    *)
(* installed by main (binance_stream_main.cpp).                            *)
(*                                                                         *)
(* Strings are sequences of one-character strings.  An absent optional     *)
(* (std::nullopt, a missing JSON field) is the empty sequence <<>>, a      *)
(* present one is the one-element sequence <<v>>.                          *)
(***************************************************************************)
EXTENDS Integers, Sequences, FiniteSets, TLC

VARIABLES
    book,             \* OrderBook book(symbol, 2, 8): its data members
    last_update_id,   \* int64_t last_update_id in main
    synchronized,     \* std::atomic<bool> synchronized in main
    buffer_,          \* BinanceClient::buffer_: <<>>, or <<frame>> once async_read completed
    handler_pc,       \* position of the read loop: "idle" (no handler runs: a read is
                      \* outstanding or its frame waits in buffer_), "fetching" (the
                      \* handler is blocked in FetchDepthSnapshot), "returned"
                      \* (HandleMessage returned), "stopped" (DoRead issued no read)
    res,              \* FetchDepthSnapshot's res: <<>>, or <<response>> once the REST call ended
    samples_,         \* LatencyStats::samples_ of latency_stats
    strategy_calls,   \* OnOrderBookUpdate calls each strategy received from the latest handler run
    error_reports,    \* error outputs (on_error_ / std::cerr) of the latest handler run
    resync_count,     \* history: number of times synchronized went from true to false
    handled,          \* history: <<>>, or <<[update, last]>>: the update the live branch of
                      \* the latest handler run was given and last_update_id before it
    exch_seq,         \* exchange: sequence number of its latest book change
    exch_hist,        \* exchange: exch_hist[n] is the true book at sequence number n
    wire,             \* exchange: depth updates in flight to the client, oldest first
    call,             \* history: <<>>, or <<c>>: the latest OrderBook member call a user
                      \* of the book made, with its arguments and what it returned
    spread_strategy,  \* SpreadMonitorStrategy: spread_avg_count_, alert_active_ and
                      \* last_spread_pct_
    imbalance_strategy, \* ImbalanceStrategy: last_signal_type_ and depth_
    signal,           \* the signals the latest run of the strategies emitted, per strategy:
                      \* <<>>, or <<type>>
    emitted,          \* history: the type of the latest signal each strategy emitted
    mutex_,           \* LatencyStats::mutex_: 0 when free, or the thread that holds it
    threads,          \* the threads that call members of a LatencyStats: position in the
                      \* call, the end of samples_ push_back loaded, the value returned
    recorded,         \* history: Record calls of each thread that returned since samples_
                      \* was last cleared
    reset_seen,       \* history: a Reset call has cleared samples_
    main_pc,          \* position of the main thread: "connect" (before client->Connect()),
                      \* "connecting" and "wait" (the loops that sleep), "disconnect"
                      \* (inside Disconnect), "stats" (Disconnect returned), "done";
                      \* "user" for a user of the client between two calls
    running_,         \* BinanceClient::running_
    connected_,       \* BinanceClient::connected_
    io_thread_,       \* BinanceClient::io_thread_: "none", "running" (inside ioc_.run()),
                      \* "finished" (RunIoContext returned), "joined"
    ioc_stopped,      \* ioc_.stopped()
    g_running,        \* std::atomic<bool> g_running of main
    stage,            \* the asynchronous operation of the connection chain that is
                      \* outstanding: "resolve", "connect", "tls", "websocket"; "none"
                      \* before DoConnect, "open" after OnHandshake, "failed"
    steps,            \* history: the operations of the chain that succeeded, in order
    invoked,          \* history: the callbacks the client invoked since Connect, out of
                      \* "connected", "error", "disconnected"
    read_error,       \* history: <<>>, or <<ec>>: the error OnRead was invoked with
    io_threads,       \* history: std::thread objects constructed and not joined
    disconnect_pc,    \* position inside Disconnect: "none", "check" (before
                      \* if (connected_)), "close" (in DoClose), "stop", "join"
    return_pc,        \* where the caller of Disconnect goes on when it returns
    recent_signals,   \* SignalLog::recent_signals of signal_log, oldest first
    added,            \* history: every entry pushed to recent_signals, in the order pushed
    log_mutex,        \* SignalLog::mutex: 0 when free, or the thread that holds it
    log_threads,      \* the threads that call SignalLog::Add: position in the call and
                      \* the entry it adds
    reads_outstanding \* async_read operations issued and not completed

\* the members of the two strategies and what they emitted
strategy_vars == <<spread_strategy, imbalance_strategy, signal, emitted, recent_signals, added>>

\* the mutex of signal_log and the threads that call Add
log_locks == <<log_mutex, log_threads>>

\* the mutex of a LatencyStats and the threads that call its members
latency_vars == <<mutex_, threads, recorded, reset_seen, log_locks>>

\* the connection chain, the callbacks and the position inside Disconnect
conn_vars ==
    <<g_running, stage, steps, invoked, read_error, io_threads, disconnect_pc, return_pc>>

\* the main thread and the I/O thread of the client
thread_vars == <<main_pc, running_, connected_, io_thread_, ioc_stopped, conn_vars>>

vars == <<book, last_update_id, synchronized, buffer_, handler_pc, res, samples_,
          strategy_calls, error_reports, resync_count, handled, exch_seq, exch_hist, wire,
          call, strategy_vars, latency_vars, thread_vars, reads_outstanding>>

(***************************************************************************)
(* Bounds of the model.                                                    *)
(***************************************************************************)
\* most levels (bids and asks together) of a depth update
MaxLevels == 2
\* longest bid or ask list of a snapshot response
MaxSnapshotLevels == 2
\* highest exchange sequence number of the exchange-driven specification
MaxExchSeq == 4
\* most depth updates in flight between the exchange and the client
MaxWire == 2
\* most Update calls a user of the book makes
MaxUpdates == 4
\* largest n a user of the book passes to GetTopLevels
MaxTopN == 3
\* most book updates the strategies observe
MaxObservations == 13
\* the threads that call members of one LatencyStats
MaxThreads == 2
\* most samples the threads record
MaxSamples == 3
\* longest decimal string converted
MaxDigits == 4
\* the values 0..MaxFixed are formatted
MaxFixed == 120
\* most samples of a collector whose statistics are calculated
MaxCollected == 4
\* largest sample count whose percentile indexes are computed
MaxCount == 2000
\* most entries the threads add to signal_log
MaxAdds == 7
\* most calls of Connect and Disconnect a user of the client makes
MaxCalls == 4

(***************************************************************************)
(* Program constants.                                                      *)
(***************************************************************************)
\* OrderBook book(symbol, 2, 8)
PriceDecimals == 2
QuantityDecimals == 8

kBuy == "kBuy"
kSell == "kSell"
nullopt == <<>>

\* SignalType: kBuy and kSell are written as those of Side
kNone == "kNone"
kWarning == "kWarning"

\* SpreadMonitorStrategy spread_strategy(0.5): alert_threshold_pct_ in hundredths
AlertThresholdPct == 50
\* if (spread_avg_count_ >= 10)
MinSpreadSamples == 10
\* ImbalanceStrategy imbalance_strategy(0.3, 10): imbalance_threshold_ is
\* ImbalanceThresholdNum / ImbalanceThresholdDen, depth_ is MainDepth
ImbalanceThresholdNum == 3
ImbalanceThresholdDen == 10
MainDepth == 10
\* SignalLog::kMaxSignals
kMaxSignals == 5

(***************************************************************************)
(* SymbolConfig::StringToFixed.                                            *)
(***************************************************************************)
DigitChars == <<"0", "1", "2", "3", "4", "5", "6", "7", "8", "9">>

\* c >= '0' && c <= '9'
IsDigit(c) == \E i \in 1..10 : DigitChars[i] = c

\* c - '0'
DigitValue(c) == (CHOOSE i \in 1..10 : DigitChars[i] = c) - 1

\* the for loop over the characters of s, from position i on; the result is
\* <<result, decimal_count>> when the loop ends or breaks
RECURSIVE StringToFixedLoop(_, _, _, _, _, _)
StringToFixedLoop(s, i, result, found_dot, decimal_count, decimals) ==
    IF i > Len(s) THEN <<result, decimal_count>>
    ELSE IF s[i] = "." THEN
        StringToFixedLoop(s, i + 1, result, TRUE, decimal_count, decimals)
    ELSE IF IsDigit(s[i]) THEN
        LET r == result * 10 + DigitValue(s[i]) IN
        IF found_dot THEN
            IF decimal_count + 1 >= decimals
            THEN <<r, decimal_count + 1>>
            ELSE StringToFixedLoop(s, i + 1, r, found_dot, decimal_count + 1, decimals)
        ELSE StringToFixedLoop(s, i + 1, r, found_dot, decimal_count, decimals)
    ELSE StringToFixedLoop(s, i + 1, result, found_dot, decimal_count, decimals)

\* the while loop padding the missing fractional digits
RECURSIVE StringToFixedPad(_, _, _)
StringToFixedPad(result, decimal_count, decimals) ==
    IF decimal_count < decimals
    THEN StringToFixedPad(result * 10, decimal_count + 1, decimals)
    ELSE result

StringToFixed(s, decimals) ==
    LET l == StringToFixedLoop(s, 1, 0, FALSE, 0, decimals)
    IN  StringToFixedPad(l[1], l[2], decimals)

(***************************************************************************)
(* SymbolConfig::FixedToString.                                            *)
(***************************************************************************)
\* the digits of std::to_string for value >= 0
RECURSIVE Digits(_)
Digits(value) ==
    IF value < 10 THEN <<DigitChars[value + 1]>>
    ELSE Digits(value \div 10) \o <<DigitChars[(value % 10) + 1]>>

\* std::to_string
to_string(value) == IF value < 0 THEN <<"-">> \o Digits(-value) ELSE Digits(value)

\* std::string(n, '0')
Zeros(n) == [i \in 1..n |-> "0"]

\* while (s.length() <= decimals) s = "0" + s
RECURSIVE PadLeft(_, _)
PadLeft(str, decimals) == IF Len(str) <= decimals THEN PadLeft(<<"0">> \o str, decimals) ELSE str

\* variant: the dot is inserted one place further left
InsertDot_OneLeft(str, decimals) ==
    SubSeq(str, 1, Len(str) - decimals - 1) \o <<".">>
        \o SubSeq(str, Len(str) - decimals, Len(str))

\* s.insert(s.length() - decimals, ".")
InsertDot(str, decimals) ==
    SubSeq(str, 1, Len(str) - decimals) \o <<".">>
        \o SubSeq(str, Len(str) - decimals + 1, Len(str))

FixedToString(value, decimals) ==
    IF value = 0 THEN <<"0", ".">> \o Zeros(decimals)
    ELSE InsertDot(PadLeft(to_string(value), decimals), decimals)

(***************************************************************************)
(* OrderBook.  A book value b is a record of the data members.  The maps   *)
(* bids_ / asks_ are functions whose DOMAIN is the key set; the sorted     *)
(* sets bid_prices_ / ask_prices_ are sets read in their comparator's      *)
(* order (std::greater for bids, std::less for asks).                      *)
(***************************************************************************)
EmptyMap == [p \in {} |-> 0]

\* OrderBook::OrderBook
NewBook ==
    [bids_ |-> EmptyMap, bid_prices_ |-> {},
     asks_ |-> EmptyMap, ask_prices_ |-> {},
     cached_best_bid_ |-> nullopt, cached_best_ask_ |-> nullopt,
     cache_valid_ |-> FALSE, update_count_ |-> 0]

\* variant: erase removes nothing
MapErase_Nothing(m, k) == m

\* unordered_map::erase of a present key
MapErase(m, k) == [p \in (DOMAIN m) \ {k} |-> m[p]]

\* variant: the quantity is added to the one the key holds
MapInsertOrAssign_Adds(m, k, v) ==
    [p \in (DOMAIN m) \cup {k} |->
        IF p = k THEN (IF k \in DOMAIN m THEN m[k] + v ELSE v) ELSE m[p]]

\* unordered_map::insert_or_assign
MapInsertOrAssign(m, k, v) == [p \in (DOMAIN m) \cup {k} |-> IF p = k THEN v ELSE m[p]]

InvalidateCache(b) == [b EXCEPT !.cache_valid_ = FALSE]

\* variant: a removed bid stays in bid_prices_
UpdateBid_KeepsPrice(b, price, quantity) ==
    IF quantity = 0 THEN
        IF price \in DOMAIN b.bids_
        THEN [b EXCEPT !.bids_ = MapErase(b.bids_, price)]
        ELSE b
    ELSE
        LET inserted == price \notin DOMAIN b.bids_ IN
        [b EXCEPT !.bids_ = MapInsertOrAssign(b.bids_, price, quantity),
                  !.bid_prices_ = IF inserted THEN b.bid_prices_ \cup {price}
                                  ELSE b.bid_prices_]

UpdateBid(b, price, quantity) ==
    IF quantity = 0 THEN
        IF price \in DOMAIN b.bids_
        THEN [b EXCEPT !.bids_ = MapErase(b.bids_, price),
                       !.bid_prices_ = b.bid_prices_ \ {price}]
        ELSE b
    ELSE
        LET inserted == price \notin DOMAIN b.bids_ IN
        [b EXCEPT !.bids_ = MapInsertOrAssign(b.bids_, price, quantity),
                  !.bid_prices_ = IF inserted THEN b.bid_prices_ \cup {price}
                                  ELSE b.bid_prices_]

\* variant: an ask of quantity zero is stored like any other
UpdateAsk_StoresZero(b, price, quantity) ==
    LET inserted == price \notin DOMAIN b.asks_ IN
    [b EXCEPT !.asks_ = MapInsertOrAssign(b.asks_, price, quantity),
              !.ask_prices_ = IF inserted THEN b.ask_prices_ \cup {price}
                              ELSE b.ask_prices_]

UpdateAsk(b, price, quantity) ==
    IF quantity = 0 THEN
        IF price \in DOMAIN b.asks_
        THEN [b EXCEPT !.asks_ = MapErase(b.asks_, price),
                       !.ask_prices_ = b.ask_prices_ \ {price}]
        ELSE b
    ELSE
        LET inserted == price \notin DOMAIN b.asks_ IN
        [b EXCEPT !.asks_ = MapInsertOrAssign(b.asks_, price, quantity),
                  !.ask_prices_ = IF inserted THEN b.ask_prices_ \cup {price}
                                  ELSE b.ask_prices_]

\* variant: Update does not call InvalidateCache
Update_KeepsCache(b, side, price, quantity) ==
    LET b1 == [b EXCEPT !.update_count_ = b.update_count_ + 1]
    IN  IF side = kBuy THEN UpdateBid(b1, price, quantity)
        ELSE UpdateAsk(b1, price, quantity)

\* variant: Update stores no level that would cross the book
Update_DropsCrossed(b, side, price, quantity) ==
    LET b1 == InvalidateCache([b EXCEPT !.update_count_ = b.update_count_ + 1])
    IN  IF side = kBuy
        THEN IF \E a \in b.ask_prices_ : a <= price THEN b1
             ELSE UpdateBid(b1, price, quantity)
        ELSE IF \E d \in b.bid_prices_ : d >= price THEN b1
             ELSE UpdateAsk(b1, price, quantity)

Update(b, side, price, quantity) ==
    LET b1 == InvalidateCache([b EXCEPT !.update_count_ = b.update_count_ + 1])
    IN  IF side = kBuy THEN UpdateBid(b1, price, quantity)
        ELSE UpdateAsk(b1, price, quantity)

UpdateFromStrings(b, side, price_str, quantity_str) ==
    Update(b, side, StringToFixed(price_str, PriceDecimals),
                    StringToFixed(quantity_str, QuantityDecimals))

\* variant: Clear() also resets the update counter
Clear_ResetsCount(b) ==
    InvalidateCache([b EXCEPT !.bids_ = EmptyMap, !.asks_ = EmptyMap,
                              !.bid_prices_ = {}, !.ask_prices_ = {},
                              !.update_count_ = 0])

\* OrderBook::Clear()
Clear(b) ==
    InvalidateCache([b EXCEPT !.bids_ = EmptyMap, !.asks_ = EmptyMap,
                              !.bid_prices_ = {}, !.ask_prices_ = {}])

\* variant: Clear(side) leaves the cache as it is
ClearSide_KeepsCache(b, side) ==
    IF side = kBuy
    THEN [b EXCEPT !.bids_ = EmptyMap, !.bid_prices_ = {}]
    ELSE [b EXCEPT !.asks_ = EmptyMap, !.ask_prices_ = {}]

\* OrderBook::Clear(Side)
ClearSide(b, side) ==
    InvalidateCache(IF side = kBuy
                    THEN [b EXCEPT !.bids_ = EmptyMap, !.bid_prices_ = {}]
                    ELSE [b EXCEPT !.asks_ = EmptyMap, !.ask_prices_ = {}])

\* *bid_prices_.begin(): first element under std::greater
BidBegin(prices) == CHOOSE p \in prices : \A q \in prices : q <= p

\* *ask_prices_.begin(): first element under std::less
AskBegin(prices) == CHOOSE p \in prices : \A q \in prices : p <= q

\* variant: RefreshCache marks the cache valid and computes nothing
RefreshCache_Sticky(b) == [b EXCEPT !.cache_valid_ = TRUE]

\* variant: a refresh of a valid cache forgets the cached prices
RefreshCache_Forgets(b) ==
    IF b.cache_valid_
    THEN [b EXCEPT !.cached_best_bid_ = nullopt, !.cached_best_ask_ = nullopt]
    ELSE [b EXCEPT
            !.cached_best_bid_ = IF b.bid_prices_ = {} THEN nullopt
                                 ELSE <<BidBegin(b.bid_prices_)>>,
            !.cached_best_ask_ = IF b.ask_prices_ = {} THEN nullopt
                                 ELSE <<AskBegin(b.ask_prices_)>>,
            !.cache_valid_ = TRUE]

\* OrderBook::RefreshCache
RefreshCache(b) ==
    IF b.cache_valid_ THEN b
    ELSE [b EXCEPT
            !.cached_best_bid_ = IF b.bid_prices_ = {} THEN nullopt
                                 ELSE <<BidBegin(b.bid_prices_)>>,
            !.cached_best_ask_ = IF b.ask_prices_ = {} THEN nullopt
                                 ELSE <<AskBegin(b.ask_prices_)>>,
            !.cache_valid_ = TRUE]

\* the queries return their value; the book after the query is RefreshCache(b)
GetBestBid(b) == RefreshCache(b).cached_best_bid_

GetBestAsk(b) == RefreshCache(b).cached_best_ask_

GetSpread(b) ==
    LET bid == GetBestBid(b)
        ask == GetBestAsk(b)
    IN  IF bid # nullopt /\ ask # nullopt THEN <<ask[1] - bid[1]>> ELSE nullopt

GetQuantityAt(b, side, price) ==
    LET map == IF side = kBuy THEN b.bids_ ELSE b.asks_
    IN  IF price \in DOMAIN map THEN map[price] ELSE 0

\* variant: the mid price is rounded up
GetMidPrice_RoundsUp(b) ==
    LET bid == GetBestBid(b)
        ask == GetBestAsk(b)
    IN  IF bid # nullopt /\ ask # nullopt THEN <<(bid[1] + ask[1] + 1) \div 2>> ELSE nullopt

GetMidPrice(b) ==
    LET bid == GetBestBid(b)
        ask == GetBestAsk(b)
    IN  IF bid # nullopt /\ ask # nullopt THEN <<(bid[1] + ask[1]) \div 2>> ELSE nullopt

\* the range-for of GetTopLevels over the prices left in the sorted set;
\* map.at(price) throws std::out_of_range for a price the map lacks
RECURSIVE GetTopLevelsLoop_OneMore(_, _, _, _, _)
\* variant: the loop breaks one level late
GetTopLevelsLoop_OneMore(prices, map, side, n, result) ==
    IF prices = {} \/ Len(result) > n THEN [threw |-> FALSE, result |-> result]
    ELSE LET price == IF side = kBuy THEN BidBegin(prices) ELSE AskBegin(prices) IN
         IF price \notin DOMAIN map THEN [threw |-> TRUE, result |-> result]
         ELSE GetTopLevelsLoop_OneMore(prices \ {price}, map, side, n,
                               Append(result, [price |-> price, quantity |-> map[price]]))

RECURSIVE GetTopLevelsLoop(_, _, _, _, _)
GetTopLevelsLoop(prices, map, side, n, result) ==
    IF prices = {} \/ Len(result) >= n THEN [threw |-> FALSE, result |-> result]
    ELSE LET price == IF side = kBuy THEN BidBegin(prices) ELSE AskBegin(prices) IN
         IF price \notin DOMAIN map THEN [threw |-> TRUE, result |-> result]
         ELSE GetTopLevelsLoop(prices \ {price}, map, side, n,
                               Append(result, [price |-> price, quantity |-> map[price]]))

GetTopLevels(b, side, n) ==
    IF side = kBuy THEN GetTopLevelsLoop(b.bid_prices_, b.bids_, side, n, <<>>)
    ELSE GetTopLevelsLoop(b.ask_prices_, b.asks_, side, n, <<>>)

GetLevelCount(b, side) ==
    IF side = kBuy THEN Cardinality(b.bid_prices_) ELSE Cardinality(b.ask_prices_)

(***************************************************************************)
(* Wire data.  A JSON depth update is the record                           *)
(*   [doc_ok, e, s, U, u, b, a]                                            *)
(* doc_ok: the text is a JSON document; e, s, U, u, b, a: the fields,      *)
(* <<>> when the field is missing or has the wrong type.  b and a hold a   *)
(* list of entries [ok, price, qty]; ok is FALSE for an entry that is not  *)
(* an array of two strings.  A REST response is                            *)
(*   [kind, doc_ok, lastUpdateId, bids, asks]                              *)
(* with kind "network_error" when resolve/connect/handshake/write/read     *)
(* throws and "body" when a response body was read.                        *)
(***************************************************************************)
Str_100_00 == <<"1", "0", "0", ".", "0", "0">>
Str_99_50 == <<"9", "9", ".", "5", "0">>
Str_100_50 == <<"1", "0", "0", ".", "5", "0">>
Str_0 == <<"0">>
Str_1_0 == <<"1", ".", "0">>
Str_2_0 == <<"2", ".", "0">>
Str_0_5 == <<"0", ".", "5">>

Level(price, qty) == [ok |-> TRUE, price |-> price, qty |-> qty]

MalformedEntry == [ok |-> FALSE, price |-> <<>>, qty |-> <<>>]

\* the well-formed [price, quantity] entries a bid list draws from
BidLevels ==
    {Level(Str_100_00, Str_1_0), Level(Str_100_00, Str_0),
     Level(Str_99_50, Str_2_0), Level(Str_99_50, Str_0)}

\* the well-formed [price, quantity] entries an ask list draws from
AskLevels == {Level(Str_100_50, Str_0_5), Level(Str_100_50, Str_0)}

\* the first / final update ids of the depth updates of Spec
SeqIds == {95, 101, 105, 110}

\* the lastUpdateId values of a snapshot response
SnapshotIds == {100}

\* the values an uninitialised int64_t may be read as
UninitializedIds == {0, 110}

\* the durations NowNanos() differences may measure
LatencyValues == {250}

SeqsUpTo(S, n) == UNION {[1..k -> S] : k \in 0..n}

\* a JSON array field that is present and holds at most n well-formed entries
ArrayFields(levels, n) == {<<l>> : l \in SeqsUpTo(levels, n)}

\* depth updates whose header fields are all present
HeaderOkMessages ==
    {m \in [doc_ok : {TRUE}, e : {<<"depthUpdate">>}, s : {<<"BTCUSDT">>},
            U : {<<i>> : i \in SeqIds}, u : {<<i>> : i \in SeqIds},
            b : ArrayFields(BidLevels, MaxLevels), a : ArrayFields(AskLevels, MaxLevels)] :
        Len(m.b[1]) + Len(m.a[1]) <= MaxLevels}

BaseMessage ==
    [doc_ok |-> TRUE, e |-> <<"depthUpdate">>, s |-> <<"BTCUSDT">>,
     U |-> <<105>>, u |-> <<110>>,
     b |-> <<(<<Level(Str_100_00, Str_1_0)>>)>>,
     a |-> <<(<<Level(Str_100_50, Str_0_5)>>)>>]

\* frames ParseDepthUpdate refuses: no JSON, no or another event type, no symbol, no U, no u
HeaderBadMessages ==
    {[BaseMessage EXCEPT !.doc_ok = FALSE], [BaseMessage EXCEPT !.e = <<>>],
     [BaseMessage EXCEPT !.e = <<"trade">>], [BaseMessage EXCEPT !.s = <<>>],
     [BaseMessage EXCEPT !.U = <<>>], [BaseMessage EXCEPT !.u = <<>>]}

\* depth updates with a missing side or a malformed level entry
MalformedMessages ==
    {[BaseMessage EXCEPT !.U = <<U>>, !.u = <<u>>, !.b = f[1], !.a = f[2]] :
        U \in SeqIds, u \in SeqIds,
        f \in {<<(<<>>), BaseMessage.a>>,
                <<BaseMessage.b, (<<>>)>>,
                <<(<<(<<MalformedEntry, Level(Str_99_50, Str_2_0)>>)>>), BaseMessage.a>>,
                <<BaseMessage.b, (<<(<<Level(Str_100_50, Str_0)>>) \o (<<MalformedEntry>>)>>)>>}}

Messages == HeaderOkMessages \cup HeaderBadMessages \cup MalformedMessages

BodyResponses ==
    [kind : {"body"}, doc_ok : {TRUE}, lastUpdateId : {<<i>> : i \in SnapshotIds},
     bids : ArrayFields(BidLevels, MaxSnapshotLevels),
     asks : ArrayFields(AskLevels, MaxSnapshotLevels)]

BaseResponse ==
    [kind |-> "body", doc_ok |-> TRUE, lastUpdateId |-> <<100>>,
     bids |-> <<(<<Level(Str_100_00, Str_1_0)>>)>>,
     asks |-> <<(<<Level(Str_100_50, Str_0_5)>>)>>]

\* a fetch that throws, a body that is no JSON, a JSON body without lastUpdateId
FailedResponses ==
    {[BaseResponse EXCEPT !.kind = "network_error"],
     [BaseResponse EXCEPT !.doc_ok = FALSE],
     [BaseResponse EXCEPT !.lastUpdateId = <<>>]}

\* snapshot bodies with a missing side or a malformed level entry
MalformedResponses ==
    {[BaseResponse EXCEPT !.bids = <<>>],
     [BaseResponse EXCEPT !.asks = <<>>],
     [BaseResponse EXCEPT !.bids = <<(<<MalformedEntry, Level(Str_99_50, Str_2_0)>>)>>]}

Responses == BodyResponses \cup FailedResponses \cup MalformedResponses

(***************************************************************************)
(* FastJsonParser.                                                         *)
(***************************************************************************)
\* the loop over doc["b"] / doc["a"] / doc["bids"] / doc["asks"]: a missing
\* array gives no level, an entry in error is skipped
RECURSIVE ParseLevelEntries(_, _)
ParseLevelEntries(entries, i) ==
    IF i > Len(entries) THEN <<>>
    ELSE IF entries[i].ok
         THEN <<(<<entries[i].price, entries[i].qty>>)>> \o ParseLevelEntries(entries, i + 1)
         ELSE ParseLevelEntries(entries, i + 1)

ParseLevels(field) == IF field = <<>> THEN <<>> ELSE ParseLevelEntries(field[1], 1)

\* the DepthUpdate HandleMessage declares; its ids are not initialised
NewDepthUpdate(garbage) ==
    [first_update_id |-> garbage, final_update_id |-> garbage, bids |-> <<>>, asks |-> <<>>]

\* returns the bool result and the update as far as it was filled in
ParseDepthUpdate(json, update) ==
    IF ~json.doc_ok THEN [ok |-> FALSE, update |-> update]
    ELSE IF json.e = <<>> THEN [ok |-> FALSE, update |-> update]
    ELSE IF json.e[1] # "depthUpdate" THEN [ok |-> FALSE, update |-> update]
    ELSE IF json.s = <<>> THEN [ok |-> FALSE, update |-> update]
    ELSE IF json.U = <<>> THEN [ok |-> FALSE, update |-> update]
    ELSE IF json.u = <<>>
         THEN [ok |-> FALSE, update |-> [update EXCEPT !.first_update_id = json.U[1]]]
    ELSE [ok |-> TRUE,
          update |-> [first_update_id |-> json.U[1], final_update_id |-> json.u[1],
                      bids |-> ParseLevels(json.b), asks |-> ParseLevels(json.a)]]

\* the DepthSnapshot FetchDepthSnapshot declares; last_update_id is not initialised
NewDepthSnapshot(garbage) == [last_update_id |-> garbage, bids |-> <<>>, asks |-> <<>>]

ParseDepthSnapshot(json, snapshot) ==
    IF ~json.doc_ok THEN [ok |-> FALSE, snapshot |-> snapshot]
    ELSE IF json.lastUpdateId = <<>> THEN [ok |-> FALSE, snapshot |-> snapshot]
    ELSE [ok |-> TRUE,
          snapshot |-> [last_update_id |-> json.lastUpdateId[1],
                        bids |-> ParseLevels(json.bids), asks |-> ParseLevels(json.asks)]]

(***************************************************************************)
(* BinanceClient::FetchDepthSnapshot: throws on a network error, otherwise *)
(* returns the snapshot whatever ParseDepthSnapshot returned.              *)
(***************************************************************************)
FetchDepthSnapshot(response, garbage) ==
    IF response.kind = "network_error"
    THEN [threw |-> TRUE, snapshot |-> NewDepthSnapshot(garbage)]
    ELSE [threw |-> FALSE,
          snapshot |-> ParseDepthSnapshot(response, NewDepthSnapshot(garbage)).snapshot]

(***************************************************************************)
(* The depth-update handler of main (client->SetOnDepthUpdate).            *)
(***************************************************************************)
\* for (const auto& [price, qty] : levels) book.UpdateFromStrings(side, price, qty)
RECURSIVE ApplyLevels(_, _, _, _)
ApplyLevels(b, side, levels, i) ==
    IF i > Len(levels) THEN b
    ELSE ApplyLevels(UpdateFromStrings(b, side, levels[i][1], levels[i][2]), side, levels, i + 1)

\* variant: the try block applies the snapshot without book.Clear()
ApplySnapshot_NoClear(b, snapshot) ==
    ApplyLevels(ApplyLevels(b, kBuy, snapshot.bids, 1), kSell, snapshot.asks, 1)

\* the book after the try block applied the snapshot
ApplySnapshot(b, snapshot) ==
    ApplyLevels(ApplyLevels(Clear(b), kBuy, snapshot.bids, 1), kSell, snapshot.asks, 1)

\* spread_strategy.OnOrderBookUpdate(book) reads GetBestBid / GetBestAsk, which
\* refresh the cache; imbalance_strategy.OnOrderBookUpdate(book) reads GetTopLevels
RunStrategies(b) == RefreshCache(b)

\* variant: the stale check lets the update at last_update_id itself through
IsStale_Strict(update, last) == update.final_update_id < last

\* variant: no stale check
IsStale_Never(update, last) == FALSE

\* the stale check of the live branch
IsStale(update, last) == update.final_update_id <= last

\* variant: the live branch applies the bids of the update and not its asks
ApplyUpdate_SkipsAsks(b, update) == RunStrategies(ApplyLevels(b, kBuy, update.bids, 1))

\* variant: the live branch runs the strategies before it applies the asks
ApplyUpdate_StrategiesBeforeAsks(b, update) ==
    ApplyLevels(RunStrategies(ApplyLevels(b, kBuy, update.bids, 1)), kSell, update.asks, 1)

\* the book after the live branch applied the update and ran the strategies
ApplyUpdate(b, update) ==
    RunStrategies(ApplyLevels(ApplyLevels(b, kBuy, update.bids, 1), kSell, update.asks, 1))

\* history of the synchronized flag: a fall from true to false is a resync
CountResync == resync_count' = resync_count + (IF synchronized /\ ~synchronized' THEN 1 ELSE 0)

\* variant: the handler returns from an update that finds the book
\* unsynchronized and fetches nothing
OnDepthUpdate_NoFetch(update) ==
    IF ~synchronized THEN
        /\ handler_pc' = "returned"
        /\ strategy_calls' = 0
        /\ error_reports' = 0
        /\ handled' = <<>>
        /\ UNCHANGED <<book, last_update_id, synchronized, samples_>>
    ELSE IF IsStale(update, last_update_id) THEN
        /\ handler_pc' = "returned"
        /\ strategy_calls' = 0
        /\ error_reports' = 0
        /\ handled' = <<[update |-> update, last |-> last_update_id]>>
        /\ UNCHANGED <<book, last_update_id, synchronized, samples_>>
    ELSE
        /\ book' = ApplyUpdate(book, update)
        /\ strategy_calls' = 1
        /\ \E latency \in LatencyValues : samples_' = Append(samples_, latency)
        /\ last_update_id' = update.final_update_id
        /\ handler_pc' = "returned"
        /\ error_reports' = 0
        /\ handled' = <<[update |-> update, last |-> last_update_id]>>
        /\ UNCHANGED synchronized

\* variant: the handler applies the update that triggers the fetch before
\* the snapshot is there
OnDepthUpdate_AppliesTrigger(update) ==
    IF ~synchronized THEN
        /\ book' = ApplyLevels(ApplyLevels(book, kBuy, update.bids, 1), kSell, update.asks, 1)
        /\ handler_pc' = "fetching"
        /\ strategy_calls' = 0
        /\ error_reports' = 0
        /\ handled' = <<>>
        /\ UNCHANGED <<last_update_id, synchronized, samples_>>
    ELSE IF IsStale(update, last_update_id) THEN
        /\ handler_pc' = "returned"
        /\ strategy_calls' = 0
        /\ error_reports' = 0
        /\ handled' = <<[update |-> update, last |-> last_update_id]>>
        /\ UNCHANGED <<book, last_update_id, synchronized, samples_>>
    ELSE
        /\ book' = ApplyUpdate(book, update)
        /\ strategy_calls' = 1
        /\ \E latency \in LatencyValues : samples_' = Append(samples_, latency)
        /\ last_update_id' = update.final_update_id
        /\ handler_pc' = "returned"
        /\ error_reports' = 0
        /\ handled' = <<[update |-> update, last |-> last_update_id]>>
        /\ UNCHANGED synchronized

\* the handler, entered with a parsed update.  While not synchronized it
\* calls the blocking FetchDepthSnapshot and is suspended in it.
OnDepthUpdate(update) ==
    IF ~synchronized THEN
        /\ handler_pc' = "fetching"
        /\ strategy_calls' = 0
        /\ error_reports' = 0
        /\ handled' = <<>>
        /\ UNCHANGED <<book, last_update_id, synchronized, samples_>>
    ELSE IF IsStale(update, last_update_id) THEN
        /\ handler_pc' = "returned"
        /\ strategy_calls' = 0
        /\ error_reports' = 0
        /\ handled' = <<[update |-> update, last |-> last_update_id]>>
        /\ UNCHANGED <<book, last_update_id, synchronized, samples_>>
    ELSE
        /\ book' = ApplyUpdate(book, update)
        /\ strategy_calls' = 1
        /\ \E latency \in LatencyValues : samples_' = Append(samples_, latency)
        /\ last_update_id' = update.final_update_id
        /\ handler_pc' = "returned"
        /\ error_reports' = 0
        /\ handled' = <<[update |-> update, last |-> last_update_id]>>
        /\ UNCHANGED synchronized

\* BinanceClient::HandleMessage
HandleMessage(message) ==
    LET parsed == ParseDepthUpdate(message, NewDepthUpdate(0)) IN
    IF parsed.ok THEN OnDepthUpdate(parsed.update)
    ELSE /\ handler_pc' = "returned"
         /\ strategy_calls' = 0
         /\ error_reports' = 0
         /\ handled' = <<>>
         /\ UNCHANGED <<book, last_update_id, synchronized, samples_>>

\* BinanceClient::OnRead with no read error, up to the return of
\* HandleMessage: the frame in buffer_ is taken out and handled
OnRead ==
    /\ handler_pc = "idle"
    /\ buffer_ # <<>>
    /\ HandleMessage(buffer_[1])
    /\ buffer_' = <<>>
    /\ res' = res
    /\ UNCHANGED reads_outstanding
    /\ CountResync

\* the rest of the handler once the REST call of FetchDepthSnapshot ended:
\* the snapshot is returned or the exception is caught
FetchReturns(garbage) ==
    /\ handler_pc = "fetching"
    /\ res # <<>>
    /\ LET fetched == FetchDepthSnapshot(res[1], garbage) IN
       IF fetched.threw THEN
           /\ error_reports' = 1
           /\ UNCHANGED <<book, last_update_id, synchronized>>
       ELSE
           /\ last_update_id' = fetched.snapshot.last_update_id
           /\ book' = ApplySnapshot(book, fetched.snapshot)
           /\ synchronized' = TRUE
           /\ error_reports' = 0
    /\ handler_pc' = "returned"
    /\ res' = <<>>
    /\ strategy_calls' = 0
    /\ UNCHANGED <<samples_, buffer_, handled, reads_outstanding>>
    /\ CountResync

\* the end of OnRead: DoRead() issues the next async_read while the client
\* is running
DoRead ==
    /\ handler_pc = "returned"
    /\ IF running_
       THEN handler_pc' = "idle" /\ reads_outstanding' = reads_outstanding + 1
       ELSE handler_pc' = "stopped" /\ UNCHANGED reads_outstanding
    /\ handled' = <<>>
    /\ UNCHANGED <<book, last_update_id, synchronized, buffer_, res, samples_,
                   strategy_calls, error_reports, resync_count>>

\* the values the uninitialised last_update_id of the returned snapshot may
\* have: it is read only when ParseDepthSnapshot did not assign it
GarbageFor(response) ==
    IF response.kind = "body" /\ ParseDepthSnapshot(response, NewDepthSnapshot(0)).ok
    THEN {0}
    ELSE UninitializedIds

(***************************************************************************)
(* The strategies (strategy.hpp).  The double members spread_avg_ and      *)
(* last_spread_pct_ of SpreadMonitorStrategy are not kept: the quotient    *)
(* ratio = spread_pct / spread_avg_ is an input of each run, in hundredths,*)
(* <<>> when it is no number (0.0 / 0.0).  The imbalance is the quotient   *)
(* of two integers and is compared by cross-multiplication, the total      *)
(* being positive.                                                         *)
(***************************************************************************)
NoSignal == [spread |-> <<>>, imbalance |-> <<>>]

\* SpreadMonitorStrategy::SpreadMonitorStrategy.  A spread percentage is
\* kept as the pair of the spread and the mid price it divides; spread_avg_
\* is assigned only together with spread_avg_count_ and is not kept
NewSpreadMonitorStrategy ==
    [spread_avg_count_ |-> 0, alert_active_ |-> FALSE, last_spread_pct_ |-> <<0, 1>>]

\* ImbalanceStrategy::ImbalanceStrategy
NewImbalanceStrategy(depth) == [last_signal_type_ |-> kNone, depth_ |-> depth]

\* spread and mid_price of OnOrderBookUpdate
SpreadPct(b) ==
    <<GetBestAsk(b)[1] - GetBestBid(b)[1], (GetBestBid(b)[1] + GetBestAsk(b)[1]) \div 2>>

\* variant: a sample counts twice
UpdateSpreadAverage_Twice(strategy) == [strategy EXCEPT !.spread_avg_count_ = @ + 2]

\* SpreadMonitorStrategy::UpdateSpreadAverage
UpdateSpreadAverage(strategy) == [strategy EXCEPT !.spread_avg_count_ = @ + 1]

\* variant: a warning leaves alert_active_ as it is
CheckSpread_NoLatch(counted, ratio) ==
    IF counted.spread_avg_count_ >= MinSpreadSamples /\ ratio # <<>>
    THEN IF ratio[1] > 100 + AlertThresholdPct /\ ~counted.alert_active_
         THEN [strategy |-> counted, signal |-> <<kWarning>>]
         ELSE IF 2 * ratio[1] < 200 + AlertThresholdPct /\ counted.alert_active_
         THEN [strategy |-> [counted EXCEPT !.alert_active_ = FALSE], signal |-> <<kNone>>]
         ELSE [strategy |-> counted, signal |-> <<>>]
    ELSE [strategy |-> counted, signal |-> <<>>]

\* the check for an unusual spread, lines 370-385; a ratio that is no
\* number compares false
CheckSpread(counted, ratio) ==
    IF counted.spread_avg_count_ >= MinSpreadSamples /\ ratio # <<>>
    THEN IF ratio[1] > 100 + AlertThresholdPct /\ ~counted.alert_active_
         THEN [strategy |-> [counted EXCEPT !.alert_active_ = TRUE], signal |-> <<kWarning>>]
         ELSE IF 2 * ratio[1] < 200 + AlertThresholdPct /\ counted.alert_active_
         THEN [strategy |-> [counted EXCEPT !.alert_active_ = FALSE], signal |-> <<kNone>>]
         ELSE [strategy |-> counted, signal |-> <<>>]
    ELSE [strategy |-> counted, signal |-> <<>>]

\* SpreadMonitorStrategy::OnOrderBookUpdate: the members after the run and
\* the signal it emitted
SpreadOnOrderBookUpdate(strategy, b, ratio) ==
    IF GetBestBid(b) = nullopt \/ GetBestAsk(b) = nullopt
    THEN [strategy |-> strategy, signal |-> <<>>]
    ELSE LET checked == CheckSpread(UpdateSpreadAverage(strategy), ratio)
         IN  [strategy |-> [checked.strategy EXCEPT !.last_spread_pct_ = SpreadPct(b)],
              signal |-> checked.signal]

\* for (const auto& level : levels) qty += level.quantity
RECURSIVE SumQuantities(_, _)
SumQuantities(levels, i) ==
    IF i > Len(levels) THEN 0 ELSE levels[i].quantity + SumQuantities(levels, i + 1)

\* std::abs
Abs(x) == IF x < 0 THEN -x ELSE x

\* the whole part of imbalance_threshold_ * total / halves, the threshold
\* being ImbalanceThresholdNum / ImbalanceThresholdDen; the products stay
\* within the integers of the checker
ThresholdFloor(total, halves) ==
    LET den == ImbalanceThresholdDen * halves IN
    ImbalanceThresholdNum * (total \div den) + (ImbalanceThresholdNum * (total % den)) \div den

\* imbalance_threshold_ * total / halves is a whole number
ThresholdWhole(total, halves) ==
    LET den == ImbalanceThresholdDen * halves IN
    (ImbalanceThresholdNum * (total % den)) % den = 0

\* variant: the buy signal is given at the threshold itself
ImbalanceGreater_AtThreshold(diff, total) ==
    IF ThresholdWhole(total, 1) THEN diff >= ThresholdFloor(total, 1)
    ELSE diff > ThresholdFloor(total, 1)

\* imbalance > imbalance_threshold_, the imbalance being diff / total:
\* diff > imbalance_threshold_ * total
ImbalanceGreater(diff, total) == diff > ThresholdFloor(total, 1)

\* imbalance < -imbalance_threshold_
ImbalanceLess(diff, total) == -diff > ThresholdFloor(total, 1)

\* std::abs(imbalance) < imbalance_threshold_ / 2
ImbalanceNeutral(diff, total) ==
    IF ThresholdWhole(total, 2) THEN Abs(diff) < ThresholdFloor(total, 2)
    ELSE Abs(diff) <= ThresholdFloor(total, 2)

\* ImbalanceStrategy::OnOrderBookUpdate: the members after the run and the
\* signal it emitted
ImbalanceOnOrderBookUpdate(strategy, b) ==
    LET bids == GetTopLevels(b, kBuy, strategy.depth_).result
        asks == GetTopLevels(b, kSell, strategy.depth_).result
        bid_qty == SumQuantities(bids, 1)
        ask_qty == SumQuantities(asks, 1)
        total == bid_qty + ask_qty
        diff == bid_qty - ask_qty
        last == strategy.last_signal_type_
        nothing == [strategy |-> strategy, signal |-> <<>>]
        emit(type) == [strategy |-> [strategy EXCEPT !.last_signal_type_ = type],
                       signal |-> <<type>>]
    IN  IF bids = <<>> \/ asks = <<>> THEN nothing
        ELSE IF bid_qty = 0 /\ ask_qty = 0 THEN nothing
        ELSE IF ImbalanceGreater(diff, total) /\ last # kBuy THEN emit(kBuy)
        ELSE IF ImbalanceLess(diff, total) /\ last # kSell THEN emit(kSell)
        ELSE IF ImbalanceNeutral(diff, total) /\ last # kNone THEN emit(kNone)
        ELSE nothing

\* the values of spread_pct / spread_avg_, in hundredths
RatioValues == {<<>>, <<100>>, <<125>>, <<150>>, <<160>>}

\* the quotients a run of the spread strategy may compute: it computes one
\* when both best prices exist and the sample is at least the tenth
RatiosRead(strategy, b) ==
    IF /\ GetBestBid(b) # nullopt
       /\ GetBestAsk(b) # nullopt
       /\ strategy.spread_avg_count_ + 1 >= MinSpreadSamples
    THEN RatioValues
    ELSE {<<>>}

\* the latest type a strategy emitted, after a run that emitted now
LatestEmitted(before, now) == IF now # <<>> THEN now ELSE before

\* variant: the newest entry is evicted
PopFront_Newest(deque) == SubSeq(deque, 1, Len(deque) - 1)

\* recent_signals.pop_front()
PopFront(deque) == Tail(deque)

\* recent_signals.push_back({strategy_name, signal})
PushBack(deque, strategy_name, sig) == Append(deque, <<strategy_name, sig>>)

RECURSIVE Trim(_)
\* while (recent_signals.size() > kMaxSignals) recent_signals.pop_front()
Trim(deque) == IF Len(deque) > kMaxSignals THEN Trim(PopFront(deque)) ELSE deque

\* Strategy::EmitSignal with the callback main sets: signal_log.Add, when
\* the run emitted a signal
EmitSignal(deque, strategy_name, emission) ==
    IF emission = <<>> THEN deque ELSE Trim(PushBack(deque, strategy_name, emission[1]))

\* the entries a run of the two strategies pushes
Emissions(spread, imbalance) ==
    (IF spread = <<>> THEN <<>> ELSE <<<<"SpreadMonitor", spread[1]>>>>)
        \o (IF imbalance = <<>> THEN <<>> ELSE <<<<"Imbalance", imbalance[1]>>>>)

\* the two strategies observe the book applied, the spread monitor first
Observe(applied) ==
    \E ratio \in RatiosRead(spread_strategy, applied) :
    \E spread \in {SpreadOnOrderBookUpdate(spread_strategy, applied, ratio)} :
    \E imbalance \in {ImbalanceOnOrderBookUpdate(imbalance_strategy, applied)} :
        /\ spread_strategy' = spread.strategy
        /\ imbalance_strategy' = imbalance.strategy
        /\ signal' = [spread |-> spread.signal, imbalance |-> imbalance.signal]
        /\ emitted' = [spread |-> LatestEmitted(emitted.spread, spread.signal),
                       imbalance |-> LatestEmitted(emitted.imbalance, imbalance.signal)]

\* main lines 222-223 with the callbacks of lines 163-169: each strategy
\* observes the book applied and signal_log takes what it emits
ObserveBook(applied) ==
    /\ Observe(applied)
    /\ recent_signals' = EmitSignal(EmitSignal(recent_signals, "SpreadMonitor", signal'.spread),
                                    "Imbalance", signal'.imbalance)
    /\ added' = added \o Emissions(signal'.spread, signal'.imbalance)

(***************************************************************************)
(* LatencyStats: the threads that call its members.                        *)
(***************************************************************************)
Threads == 1..MaxThreads

\* a thread that is in no member function
IdleThread == [pc |-> "idle", end |-> 0, result |-> <<>>]

\* a thread that is not in SignalLog::Add
IdleAdder == [pc |-> "idle", entry |-> <<>>]

(***************************************************************************)
(* Specification Spec: the client is fed arbitrary frames and responses.   *)
(***************************************************************************)
\* the objects main constructs, but the strategies, the client's threads,
\* the samples of latency_stats and the latest call
InitFeed ==
    /\ book = NewBook
    /\ last_update_id = 0
    /\ synchronized = FALSE
    /\ buffer_ = <<>>
    /\ handler_pc = "idle"
    /\ res = <<>>
    /\ strategy_calls = 0
    /\ error_reports = 0
    /\ resync_count = 0
    /\ handled = <<>>
    /\ exch_seq = 0
    /\ exch_hist = <<>>
    /\ wire = <<>>
    /\ mutex_ = 0
    /\ threads = [t \in Threads |-> IdleThread]
    /\ recorded = [t \in Threads |-> 0]
    /\ reset_seen = FALSE
    /\ log_mutex = 0
    /\ log_threads = [t \in Threads |-> IdleAdder]

\* the objects main constructs, but the strategies and the client's threads
InitObjects == InitFeed /\ samples_ = <<>> /\ call = <<>>

\* the strategies as main constructs them
InitStrategies ==
    /\ spread_strategy = NewSpreadMonitorStrategy
    /\ imbalance_strategy = NewImbalanceStrategy(MainDepth)
    /\ signal = NoSignal
    /\ emitted = NoSignal
    /\ recent_signals = <<>>
    /\ added = <<>>

\* the asynchronous operations DoConnect, OnResolve, OnConnect and
\* OnSslHandshake issue, in the order they are issued
Chain == <<"resolve", "connect", "tls", "websocket">>

\* the client once Connect was called and the WebSocket handshake succeeded:
\* OnHandshake has issued the first read
Streaming ==
    /\ main_pc = "wait"
    /\ running_ = TRUE
    /\ connected_ = TRUE
    /\ io_thread_ = "running"
    /\ ioc_stopped = FALSE
    /\ reads_outstanding = 1
    /\ g_running = TRUE
    /\ stage = "open"
    /\ steps = Chain
    /\ invoked = {"connected"}
    /\ read_error = <<>>
    /\ io_threads = 1
    /\ disconnect_pc = "none"
    /\ return_pc = "none"

Init == InitObjects /\ InitStrategies /\ Streaming

\* the outstanding async_read completes with the frame message in buffer_
AsyncReadCompletes(message) ==
    /\ handler_pc = "idle"
    /\ buffer_ = <<>>
    /\ reads_outstanding > 0
    /\ buffer_' = <<message>>
    /\ reads_outstanding' = reads_outstanding - 1
    /\ UNCHANGED <<book, last_update_id, synchronized, handler_pc, res, samples_,
                   strategy_calls, error_reports, resync_count, handled>>

\* async_read completes with a frame
FrameArrives ==
    /\ reads_outstanding > 0
    /\ \E message \in Messages : AsyncReadCompletes(message)
    /\ UNCHANGED <<exch_seq, exch_hist, wire>>
    /\ UNCHANGED <<call, strategy_vars, latency_vars, thread_vars>>

\* the REST call of FetchDepthSnapshot ends
ResponseArrives ==
    /\ handler_pc = "fetching"
    /\ res = <<>>
    /\ \E response \in Responses : res' = <<response>>
    /\ UNCHANGED <<book, last_update_id, synchronized, buffer_, handler_pc, samples_,
                   strategy_calls, error_reports, resync_count, handled, exch_seq, exch_hist, wire,
                   reads_outstanding>>
    /\ UNCHANGED <<call, strategy_vars, latency_vars, thread_vars>>

Handle ==
    /\ OnRead
    /\ IF strategy_calls' = 1 THEN ObserveBook(book') ELSE UNCHANGED strategy_vars
    /\ UNCHANGED <<exch_seq, exch_hist, wire>>
    /\ UNCHANGED <<call, latency_vars, thread_vars>>

Fetched ==
    /\ res # <<>>
    /\ \E garbage \in GarbageFor(res[1]) : FetchReturns(garbage)
    /\ UNCHANGED <<exch_seq, exch_hist, wire>>
    /\ UNCHANGED <<call, strategy_vars, latency_vars, thread_vars>>

ReadAgain ==
    /\ DoRead
    /\ UNCHANGED <<exch_seq, exch_hist, wire>>
    /\ UNCHANGED <<call, strategy_vars, latency_vars, thread_vars>>

Next == FrameArrives \/ Handle \/ ResponseArrives \/ Fetched \/ ReadAgain

Spec == Init /\ [][Next]_vars

(***************************************************************************)
(* Specification SpecExchange: the frames come from an exchange whose      *)
(* true book is known.  Every change of the true book takes the next       *)
(* sequence number and is sent as one depth update; the stream may lose    *)
(* updates; the REST endpoint answers a fetch with the true book at the    *)
(* current sequence number.  The true book maps the price strings with     *)
(* resting quantity to their quantity strings.                             *)
(***************************************************************************)
EmptyTrueBook == [bids |-> <<>>, asks |-> <<>>]

\* the true book at sequence number n
TrueBookAt(n) == IF n = 0 THEN EmptyTrueBook ELSE exch_hist[n]

\* one side of the true book after the level (price, qty) changed
TrueSideAfter(side, level) ==
    IF level.qty = Str_0
    THEN [p \in (DOMAIN side) \ {level.price} |-> side[p]]
    ELSE [p \in (DOMAIN side) \cup {level.price} |->
             IF p = level.price THEN level.qty ELSE side[p]]

\* the exact fixed-point value of the wire strings
FixedPrice == (Str_100_00 :> 10000) @@ (Str_99_50 :> 9950) @@ (Str_100_50 :> 10050)

FixedQuantity ==
    (Str_0 :> 0) @@ (Str_1_0 :> 100000000) @@ (Str_2_0 :> 200000000) @@ (Str_0_5 :> 50000000)

\* one side of the true book as a map from fixed-point price to fixed-point quantity
TrueSideFixed(side) ==
    LET prices == {FixedPrice[p] : p \in DOMAIN side}
    IN  [x \in prices |-> FixedQuantity[side[CHOOSE p \in DOMAIN side : FixedPrice[p] = x]]]

\* the levels of one side as the list of a snapshot body, best price first
RECURSIVE SideToList(_, _)
SideToList(side, best_is_highest) ==
    IF DOMAIN side = {} THEN <<>>
    ELSE LET p == CHOOSE p \in DOMAIN side : \A q \in DOMAIN side :
                      IF best_is_highest THEN FixedPrice[q] <= FixedPrice[p]
                      ELSE FixedPrice[p] <= FixedPrice[q]
         IN  <<Level(p, side[p])>> \o
             SideToList([q \in (DOMAIN side) \ {p} |-> side[q]], best_is_highest)

\* the response of the REST endpoint at the current sequence number
ExchangeSnapshot ==
    LET true == TrueBookAt(exch_seq) IN
    [kind |-> "body", doc_ok |-> TRUE, lastUpdateId |-> <<exch_seq>>,
     bids |-> <<SideToList(true.bids, TRUE)>>, asks |-> <<SideToList(true.asks, FALSE)>>]

\* the depth update announcing the change of one level at sequence number n
ExchangeMessage(n, side, level) ==
    [doc_ok |-> TRUE, e |-> <<"depthUpdate">>, s |-> <<"BTCUSDT">>,
     U |-> <<n>>, u |-> <<n>>,
     b |-> <<(IF side = kBuy THEN <<level>> ELSE <<>>)>>,
     a |-> <<(IF side = kSell THEN <<level>> ELSE <<>>)>>]

\* the exchange changes one level of its book and sends the depth update
ExchangeChange(side, level) ==
    /\ exch_seq < MaxExchSeq
    /\ Len(wire) < MaxWire
    /\ LET true == TrueBookAt(exch_seq)
           next == IF side = kBuy
                   THEN [true EXCEPT !.bids = TrueSideAfter(true.bids, level)]
                   ELSE [true EXCEPT !.asks = TrueSideAfter(true.asks, level)]
       IN  /\ next # true
           /\ exch_hist' = Append(exch_hist, next)
    /\ exch_seq' = exch_seq + 1
    /\ wire' = Append(wire, ExchangeMessage(exch_seq + 1, side, level))
    /\ UNCHANGED <<book, last_update_id, synchronized, buffer_, handler_pc, res, samples_,
                   strategy_calls, error_reports, resync_count, handled, reads_outstanding>>
    /\ UNCHANGED <<call, strategy_vars, latency_vars, thread_vars>>

\* the oldest update in flight is lost
Lose ==
    /\ wire # <<>>
    /\ wire' = Tail(wire)
    /\ UNCHANGED <<book, last_update_id, synchronized, buffer_, handler_pc, res, samples_,
                   strategy_calls, error_reports, resync_count, handled, exch_seq, exch_hist,
                   reads_outstanding>>
    /\ UNCHANGED <<call, strategy_vars, latency_vars, thread_vars>>

\* async_read completes with the oldest update in flight
Deliver ==
    /\ wire # <<>>
    /\ AsyncReadCompletes(Head(wire))
    /\ wire' = Tail(wire)
    /\ UNCHANGED <<exch_seq, exch_hist>>
    /\ UNCHANGED <<call, strategy_vars, latency_vars, thread_vars>>

\* the REST endpoint answers the fetch the handler is blocked in
ExchangeResponds ==
    /\ handler_pc = "fetching"
    /\ res = <<>>
    /\ res' = <<ExchangeSnapshot>>
    /\ UNCHANGED <<book, last_update_id, synchronized, buffer_, handler_pc, samples_,
                   strategy_calls, error_reports, resync_count, handled, exch_seq, exch_hist, wire,
                   reads_outstanding>>
    /\ UNCHANGED <<call, strategy_vars, latency_vars, thread_vars>>

ExchangeStep ==
    \/ \E level \in BidLevels : ExchangeChange(kBuy, level)
    \/ \E level \in AskLevels : ExchangeChange(kSell, level)

NextExchange ==
    ExchangeStep \/ Lose \/ Deliver \/ ExchangeResponds \/ Handle \/ Fetched \/ ReadAgain

SpecExchange == Init /\ [][NextExchange]_vars

(***************************************************************************)
(* Specification SpecBook: a user of OrderBook (the demo main,             *)
(* PrintOrderBook, the strategies) makes member calls in any order on a    *)
(* book constructed empty.  Prices and quantities are fixed-point values.  *)
(***************************************************************************)
\* the prices and quantities the calls draw from
BookPrices == {9950, 10000, 10051}

BookQuantities == {0, 50000000, 100000000}

Sides == {kBuy, kSell}

\* the variables of the feed handler and of the exchange, which a user of
\* the book alone leaves as constructed
feed_vars ==
    <<last_update_id, synchronized, buffer_, handler_pc, res, samples_, strategy_calls,
      error_reports, resync_count, handled, exch_seq, exch_hist, wire,
      strategy_vars, latency_vars, thread_vars, reads_outstanding>>

\* book.Update(side, price, quantity)
CallUpdate ==
    /\ book.update_count_ < MaxUpdates
    /\ \E side \in Sides, price \in BookPrices, quantity \in BookQuantities :
          /\ book' = Update(book, side, price, quantity)
          /\ call' = <<[op |-> "Update", side |-> side, price |-> price, quantity |-> quantity,
                         previous |-> GetQuantityAt(book, side, price)]>>
    /\ UNCHANGED feed_vars

\* book.Clear()
CallClear ==
    /\ book' = Clear(book)
    /\ call' = <<[op |-> "Clear"]>>
    /\ UNCHANGED feed_vars

\* book.Clear(side)
CallClearSide ==
    /\ \E side \in Sides :
          /\ book' = ClearSide(book, side)
          /\ call' = <<[op |-> "ClearSide", side |-> side]>>
    /\ UNCHANGED feed_vars

\* book.GetBestBid(): the mutable cache members are refreshed
CallGetBestBid ==
    /\ book' = RefreshCache(book)
    /\ call' = <<[op |-> "GetBestBid", result |-> GetBestBid(book)]>>
    /\ UNCHANGED feed_vars

\* book.GetBestAsk()
CallGetBestAsk ==
    /\ book' = RefreshCache(book)
    /\ call' = <<[op |-> "GetBestAsk", result |-> GetBestAsk(book)]>>
    /\ UNCHANGED feed_vars

\* book.GetSpread()
CallGetSpread ==
    /\ book' = RefreshCache(book)
    /\ call' = <<[op |-> "GetSpread", result |-> GetSpread(book)]>>
    /\ UNCHANGED feed_vars

\* book.GetMidPrice()
CallGetMidPrice ==
    /\ book' = RefreshCache(book)
    /\ call' = <<[op |-> "GetMidPrice", result |-> GetMidPrice(book)]>>
    /\ UNCHANGED feed_vars

\* book.GetQuantityAt(side, price): reads the book
CallGetQuantityAt ==
    /\ \E side \in Sides, price \in BookPrices :
          call' = <<[op |-> "GetQuantityAt", side |-> side, price |-> price,
                     result |-> GetQuantityAt(book, side, price)]>>
    /\ UNCHANGED book
    /\ UNCHANGED feed_vars

\* book.GetLevelCount(side): reads the book
CallGetLevelCount ==
    /\ \E side \in Sides :
          call' = <<[op |-> "GetLevelCount", side |-> side,
                     result |-> GetLevelCount(book, side)]>>
    /\ UNCHANGED book
    /\ UNCHANGED feed_vars

\* book.GetTopLevels(side, n): reads the book and returns the levels or throws
CallGetTopLevels ==
    /\ \E side \in Sides, n \in 0..MaxTopN :
          call' = <<[op |-> "GetTopLevels", side |-> side, n |-> n,
                     returned |-> GetTopLevels(book, side, n)]>>
    /\ UNCHANGED book
    /\ UNCHANGED feed_vars

NextBook ==
    \/ CallUpdate
    \/ CallClear
    \/ CallClearSide
    \/ CallGetBestBid
    \/ CallGetBestAsk
    \/ CallGetSpread
    \/ CallGetMidPrice
    \/ CallGetQuantityAt
    \/ CallGetLevelCount
    \/ CallGetTopLevels

SpecBook == Init /\ [][NextBook]_vars

(***************************************************************************)
(* Specification SpecStrategy: the live branch of the handler applies      *)
(* updates of one level and runs the two strategies on the book after      *)
(* each, as main lines 211-223 do.  The imbalance strategy is constructed  *)
(* with the depth of main or with depth 1.                                 *)
(***************************************************************************)
\* the prices and quantities of the levels the updates carry
StrategyPrices(side) == IF side = kBuy THEN {9950, 10000} ELSE {10051}

StrategyQuantities == {0, 7000000, 10000000, 13000000, 17000000}

\* the depths ImbalanceStrategy is constructed with
ImbalanceDepths == {1, MainDepth}

InitStrategy ==
    /\ InitObjects
    /\ Streaming
    /\ spread_strategy = NewSpreadMonitorStrategy
    /\ imbalance_strategy \in {NewImbalanceStrategy(depth) : depth \in ImbalanceDepths}
    /\ signal = NoSignal
    /\ emitted = NoSignal
    /\ recent_signals = <<>>
    /\ added = <<>>

\* an update of one level is applied and each strategy observes the book;
\* the callback of a strategy keeps the signal in signal and emitted
ObserveUpdate ==
    /\ book.update_count_ < MaxObservations
    /\ \E side \in Sides, quantity \in StrategyQuantities :
          \E price \in StrategyPrices(side) :
             \E applied \in {RunStrategies(Update(book, side, price, quantity))} :
                 /\ book' = applied
                 /\ Observe(applied)
    /\ UNCHANGED <<recent_signals, added>>
    /\ UNCHANGED <<last_update_id, synchronized, buffer_, handler_pc, res, samples_,
                   strategy_calls, error_reports, resync_count, handled, exch_seq, exch_hist,
                   wire, call, latency_vars, thread_vars, reads_outstanding>>

SpecStrategy == InitStrategy /\ [][ObserveUpdate]_vars

(***************************************************************************)
(* Specification SpecLatency: the threads of Threads call Record, Count,   *)
(* Calculate and Reset of one LatencyStats in any order.  A call is a      *)
(* sequence of steps of its thread and the steps of different threads      *)
(* interleave; push_back reads the end of the vector and then writes the   *)
(* element and the new end.  Thread t records the sample t.                *)
(***************************************************************************)
\* the variables the members of LatencyStats leave alone
latency_rest ==
    <<book, last_update_id, synchronized, buffer_, handler_pc, res, strategy_calls,
      error_reports, resync_count, handled, exch_seq, exch_hist, wire, call, strategy_vars,
      thread_vars, reads_outstanding, log_locks>>

\* the threads inside Record
Recording == {t \in Threads : threads[t].pc \in {"push_back", "store", "record_return"}}

\* variant: the lock is taken without waiting for its holder
Lock_NoWait(t) == mutex_' = t

\* std::lock_guard<std::mutex> lock(mutex_): waits until the mutex is free
Lock(t) == mutex_ = 0 /\ mutex_' = t

\* the end of the scope of the lock_guard
Unlock(t) == mutex_' = 0

\* the vector after push_back wrote value behind the end it had read
PushBackAt(samples, end, value) ==
    [i \in 1..(end + 1) |-> IF i = end + 1 THEN value
                            ELSE IF i <= Len(samples) THEN samples[i] ELSE 0]

RECURSIVE Accumulate(_, _)
\* std::accumulate from element i on
Accumulate(sorted, i) == IF i > Len(sorted) THEN 0 ELSE sorted[i] + Accumulate(sorted, i + 1)

\* variant: the median is read below the middle
MedianIndex_Lower(n) == (n - 1) \div 2

\* n / 2
MedianIndex(n) == n \div 2

\* n * percent / scale in size_t
PercentileIndex(n, percent, scale) == (n * percent) \div scale

\* the Stats of LatencyStats::Calculate; the mean is kept as the sum and
\* the count it divides
CalculateStats(samples) ==
    IF samples = <<>>
    THEN [count |-> 0, min_ns |-> 0, max_ns |-> 0, mean_ns |-> [sum |-> 0, n |-> 1],
          median_ns |-> 0, p50_ns |-> 0, p90_ns |-> 0, p99_ns |-> 0, p999_ns |-> 0]
    ELSE LET sorted == SortSeq(samples, LAMBDA x, y : x < y)
             n == Len(sorted)
         IN  [count |-> n,
              min_ns |-> sorted[1],
              max_ns |-> sorted[n],
              mean_ns |-> [sum |-> Accumulate(sorted, 1), n |-> n],
              median_ns |-> sorted[MedianIndex(n) + 1],
              p50_ns |-> sorted[PercentileIndex(n, 50, 100) + 1],
              p90_ns |-> sorted[PercentileIndex(n, 90, 100) + 1],
              p99_ns |-> sorted[PercentileIndex(n, 99, 100) + 1],
              p999_ns |-> sorted[PercentileIndex(n, 999, 1000) + 1]]

\* thread t enters a member function and takes the lock
Enters(t, pc) ==
    /\ threads[t].pc = "idle"
    /\ Lock(t)
    /\ threads' = [threads EXCEPT ![t] = [pc |-> pc, end |-> 0, result |-> <<>>]]
    /\ UNCHANGED <<samples_, recorded, reset_seen>>
    /\ UNCHANGED latency_rest

\* LatencyStats::Record, line 119
RecordLocks(t) ==
    /\ Len(samples_) + Cardinality(Recording) < MaxSamples
    /\ Enters(t, "push_back")

\* samples_.push_back reads the end
PushBackLoads(t) ==
    /\ threads[t].pc = "push_back"
    /\ threads' = [threads EXCEPT ![t].pc = "store", ![t].end = Len(samples_)]
    /\ UNCHANGED <<samples_, mutex_, recorded, reset_seen>>
    /\ UNCHANGED latency_rest

\* samples_.push_back writes the sample and the new end
PushBackStores(t) ==
    /\ threads[t].pc = "store"
    /\ samples_' = PushBackAt(samples_, threads[t].end, t)
    /\ threads' = [threads EXCEPT ![t].pc = "record_return"]
    /\ UNCHANGED <<mutex_, recorded, reset_seen>>
    /\ UNCHANGED latency_rest

\* LatencyStats::Count, line 125
CountLocks(t) == Enters(t, "size")

\* samples_.size() is read for the return
CountReads(t) ==
    /\ threads[t].pc = "size"
    /\ threads' = [threads EXCEPT ![t].pc = "count_return", ![t].result = <<Len(samples_)>>]
    /\ UNCHANGED <<samples_, mutex_, recorded, reset_seen>>
    /\ UNCHANGED latency_rest

\* LatencyStats::Calculate, line 143
CalculateLocks(t) == Enters(t, "calculate")

\* the Stats are computed for the return
CalculateComputes(t) ==
    /\ threads[t].pc = "calculate"
    /\ threads' = [threads EXCEPT ![t].pc = "calculate_return",
                                  ![t].result = <<CalculateStats(samples_)>>]
    /\ UNCHANGED <<samples_, mutex_, recorded, reset_seen>>
    /\ UNCHANGED latency_rest

\* LatencyStats::Reset, line 196
ResetLocks(t) == Enters(t, "clear")

\* samples_.clear()
ResetClears(t) ==
    /\ threads[t].pc = "clear"
    /\ samples_' = <<>>
    /\ recorded' = [u \in Threads |-> 0]
    /\ reset_seen' = TRUE
    /\ threads' = [threads EXCEPT ![t].pc = "reset_return"]
    /\ UNCHANGED mutex_
    /\ UNCHANGED latency_rest

\* the member function returns: the lock_guard releases the mutex
Returns(t) ==
    /\ threads[t].pc \in {"record_return", "count_return", "calculate_return", "reset_return"}
    /\ Unlock(t)
    /\ threads' = [threads EXCEPT ![t].pc = "idle"]
    /\ recorded' = [recorded EXCEPT ![t] = @ + (IF threads[t].pc = "record_return" THEN 1 ELSE 0)]
    /\ UNCHANGED <<samples_, reset_seen>>
    /\ UNCHANGED latency_rest

NextLatency ==
    \E t \in Threads :
        \/ RecordLocks(t)
        \/ PushBackLoads(t)
        \/ PushBackStores(t)
        \/ CountLocks(t)
        \/ CountReads(t)
        \/ CalculateLocks(t)
        \/ CalculateComputes(t)
        \/ ResetLocks(t)
        \/ ResetClears(t)
        \/ Returns(t)

SpecLatency == Init /\ [][NextLatency]_vars

(***************************************************************************)
(* Specification SpecSignalLog: the threads of Threads call Add of one     *)
(* SignalLog in any order.  A call is a sequence of steps of its thread:   *)
(* the lock, the push_back, one step for each pop_front of the loop, and   *)
(* the return that releases the lock.                                      *)
(***************************************************************************)
\* the variables SignalLog::Add leaves alone
log_rest ==
    <<book, last_update_id, synchronized, buffer_, handler_pc, res, samples_, strategy_calls,
      error_reports, resync_count, handled, exch_seq, exch_hist, wire, call, spread_strategy,
      imbalance_strategy, signal, emitted, mutex_, threads, recorded, reset_seen, thread_vars,
      reads_outstanding>>

\* the strategy whose callback thread t runs
StrategyName(t) == IF t = 1 THEN "SpreadMonitor" ELSE "Imbalance"

\* the signal types that strategy emits
StrategySignals(t) == IF t = 1 THEN {kWarning, kNone} ELSE {kBuy, kSell}

\* the threads inside Add
Adding == {t \in Threads : log_threads[t].pc # "idle"}

InitSignalLog ==
    /\ InitObjects
    /\ InitStrategies
    /\ Streaming

\* Add, line 27: std::lock_guard<std::mutex> lock(mutex)
AddLocks(t) ==
    /\ log_threads[t].pc = "idle"
    /\ Len(added) + Cardinality({u \in Adding : log_threads[u].pc = "push_back"}) < MaxAdds
    /\ log_mutex = 0
    /\ log_mutex' = t
    /\ \E sig \in StrategySignals(t) :
          log_threads' = [log_threads EXCEPT ![t] = [pc |-> "push_back",
                                                     entry |-> <<StrategyName(t), sig>>]]
    /\ UNCHANGED <<recent_signals, added, log_rest>>

\* Add, line 28
AddPushesBack(t) ==
    /\ log_threads[t].pc = "push_back"
    /\ recent_signals' = PushBack(recent_signals, log_threads[t].entry[1], log_threads[t].entry[2])
    /\ added' = Append(added, log_threads[t].entry)
    /\ log_threads' = [log_threads EXCEPT ![t].pc = "while"]
    /\ UNCHANGED <<log_mutex, log_rest>>

\* Add, lines 29-31: one turn of the loop
AddPopsFront(t) ==
    /\ log_threads[t].pc = "while"
    /\ Len(recent_signals) > kMaxSignals
    /\ recent_signals' = PopFront(recent_signals)
    /\ UNCHANGED <<added, log_locks, log_rest>>

\* Add, line 32: the loop ended and the lock_guard releases the mutex
AddReturns(t) ==
    /\ log_threads[t].pc = "while"
    /\ Len(recent_signals) <= kMaxSignals
    /\ log_mutex = t
    /\ log_mutex' = 0
    /\ log_threads' = [log_threads EXCEPT ![t] = IdleAdder]
    /\ UNCHANGED <<recent_signals, added, log_rest>>

NextSignalLog ==
    \E t \in Threads :
        \/ AddLocks(t)
        \/ AddPushesBack(t)
        \/ AddPopsFront(t)
        \/ AddReturns(t)

SpecSignalLog == InitSignalLog /\ [][NextSignalLog]_vars

(***************************************************************************)
(* Specification SpecThreads: main and the I/O thread of the client.  main *)
(* calls Connect, waits, calls Disconnect once a signal has cleared        *)
(* g_running and reads the book for the final statistics; the I/O thread   *)
(* runs ioc_.run(), which invokes the handlers of the connection chain and *)
(* of the reads.  The steps of the two threads interleave.  The flag       *)
(* connected of main has the value of connected_ of the client: both are   *)
(* assigned in OnHandshake and in OnRead.                                  *)
(***************************************************************************)
\* the frames and the responses of this specification
ThreadMessages ==
    {BaseMessage,
     [BaseMessage EXCEPT !.U = <<101>>, !.u = <<105>>,
                         !.b = <<(<<Level(Str_99_50, Str_2_0)>>)>>, !.a = <<(<<>>)>>],
     [BaseMessage EXCEPT !.e = <<>>]}

ThreadResponses == {BaseResponse, [BaseResponse EXCEPT !.kind = "network_error"]}

\* the error codes OnRead is invoked with: websocket::error::closed, or
\* another one
ReadErrors == {"closed", "aborted"}

\* the client as constructed
Constructed ==
    /\ running_ = FALSE
    /\ connected_ = FALSE
    /\ io_thread_ = "none"
    /\ ioc_stopped = FALSE
    /\ reads_outstanding = 0
    /\ g_running = TRUE
    /\ stage = "none"
    /\ steps = <<>>
    /\ invoked = {}
    /\ read_error = <<>>
    /\ io_threads = 0
    /\ disconnect_pc = "none"
    /\ return_pc = "none"

\* main before client->Connect()
NotConnected == main_pc = "connect" /\ Constructed

InitThreads == InitObjects /\ InitStrategies /\ NotConnected

\* what the handler of a frame works on, but its position
handler_data ==
    <<book, last_update_id, synchronized, buffer_, res, samples_, strategy_calls,
      error_reports, resync_count, handled>>

\* the variables of the handler, which the steps outside it leave alone
handler_vars ==
    <<book, last_update_id, synchronized, buffer_, handler_pc, res, samples_, strategy_calls,
      error_reports, resync_count, handled>>

\* what no step of the threads changes
threads_rest == <<exch_seq, exch_hist, wire, strategy_vars, latency_vars>>

\* ioc_.run() dispatches handlers: the thread runs and ioc_ is not stopped
Dispatching == io_thread_ = "running" /\ ~ioc_stopped

\* the chain DoConnect .. OnHandshake has not ended
Connecting == \E i \in 1..Len(Chain) : stage = Chain[i]

\* variant: OnConnect issues the WebSocket handshake
NextStage_SkipsTls(op) ==
    IF op = "connect" THEN "websocket"
    ELSE Chain[(CHOOSE i \in 1..Len(Chain) : Chain[i] = op) + 1]

\* the operation a handler of the chain issues after the one that succeeded
NextStage(op) == Chain[(CHOOSE i \in 1..Len(Chain) : Chain[i] = op) + 1]

\* no handler is being executed
HandlerAtRest == handler_pc \in {"idle", "stopped"} /\ buffer_ = <<>>

\* variant: join returns without waiting for the thread
Join_ReturnsAtOnce(thread) == TRUE

\* io_thread_.join() returns once the thread has finished
Join(thread) == thread = "finished"

\* variant: Connect goes on while the client is running
ConnectReturnsAtOnce_Never(running) == FALSE

\* Connect, line 30: if (running_) return
ConnectReturnsAtOnce(running) == running

\* variant: Disconnect goes on while the client is not running
DisconnectReturnsAtOnce_Never(running) == FALSE

\* Disconnect, line 43: if (!running_) return
DisconnectReturnsAtOnce(running) == ~running

\* BinanceClient::Connect: ws_ is made anew, DoConnect issues the resolve
\* and the I/O thread is started
Connect ==
    IF ConnectReturnsAtOnce(running_)
    THEN UNCHANGED <<running_, io_thread_, io_threads, stage, steps, invoked, read_error,
                     handler_pc, reads_outstanding>>
    ELSE /\ running_' = TRUE
         /\ stage' = Chain[1]
         /\ steps' = <<>>
         /\ invoked' = {}
         /\ read_error' = <<>>
         /\ handler_pc' = "idle"
         /\ reads_outstanding' = 0
         /\ io_thread_' = "running"
         /\ io_threads' = io_threads + 1

\* client->Connect(), called by main
MainConnect ==
    /\ main_pc = "connect"
    /\ Connect
    /\ main_pc' = "connecting"
    /\ UNCHANGED <<connected_, ioc_stopped, g_running, disconnect_pc, return_pc, call>>
    /\ UNCHANGED <<handler_data, threads_rest>>

\* SignalHandler: SIGINT or SIGTERM arrives
SignalArrives ==
    /\ g_running
    /\ g_running' = FALSE
    /\ UNCHANGED <<main_pc, running_, connected_, io_thread_, ioc_stopped, stage, steps,
                   invoked, read_error, io_threads, disconnect_pc, return_pc,
                   reads_outstanding, call>>
    /\ UNCHANGED <<handler_vars, threads_rest>>

\* the first loop of main ends with connected set
MainSeesConnected ==
    /\ main_pc = "connecting"
    /\ connected_
    /\ main_pc' = "wait"
    /\ UNCHANGED <<running_, connected_, io_thread_, ioc_stopped, conn_vars,
                   reads_outstanding, call>>
    /\ UNCHANGED <<handler_vars, threads_rest>>

\* BinanceClient::Disconnect up to running_ = false; returned is where the
\* caller goes on
DisconnectBegins(returned) ==
    /\ IF DisconnectReturnsAtOnce(running_)
       THEN /\ main_pc' = returned
            /\ UNCHANGED <<running_, disconnect_pc, return_pc>>
       ELSE /\ running_' = FALSE
            /\ main_pc' = "disconnect"
            /\ disconnect_pc' = "check"
            /\ return_pc' = returned
    /\ UNCHANGED <<connected_, io_thread_, ioc_stopped, g_running, stage, steps, invoked,
                   read_error, io_threads, reads_outstanding>>
    /\ UNCHANGED <<handler_vars, threads_rest>>

\* the first loop of main ends without connected, by the timeout or by a
\* signal, and main gives up
MainGivesUp ==
    /\ main_pc = "connecting"
    /\ ~connected_
    /\ DisconnectBegins("done")
    /\ UNCHANGED call

\* the main loop ends, g_running being false, and main calls Disconnect
MainDisconnect ==
    /\ main_pc = "wait"
    /\ ~g_running
    /\ DisconnectBegins("stats")
    /\ UNCHANGED call

\* Disconnect: if (connected_)
DisconnectChecks ==
    /\ disconnect_pc = "check"
    /\ disconnect_pc' = IF connected_ THEN "close" ELSE "stop"
    /\ UNCHANGED <<main_pc, running_, connected_, io_thread_, ioc_stopped, g_running, stage,
                   steps, invoked, read_error, io_threads, return_pc, reads_outstanding, call>>
    /\ UNCHANGED <<handler_vars, threads_rest>>

\* DoClose: ws_->close() returns to the thread that called Disconnect
DoCloseReturns ==
    /\ disconnect_pc = "close"
    /\ disconnect_pc' = "stop"
    /\ UNCHANGED <<main_pc, running_, connected_, io_thread_, ioc_stopped, g_running, stage,
                   steps, invoked, read_error, io_threads, return_pc, reads_outstanding, call>>
    /\ UNCHANGED <<handler_vars, threads_rest>>

\* ioc_.stop() in Disconnect
IocStop ==
    /\ disconnect_pc = "stop"
    /\ ioc_stopped' = TRUE
    /\ disconnect_pc' = "join"
    /\ UNCHANGED <<main_pc, running_, connected_, io_thread_, g_running, stage, steps,
                   invoked, read_error, io_threads, return_pc, reads_outstanding, call>>
    /\ UNCHANGED <<handler_vars, threads_rest>>

\* io_thread_.join() and ioc_.restart() in Disconnect, which returns
ThreadJoin ==
    /\ disconnect_pc = "join"
    /\ Join(io_thread_)
    /\ ioc_stopped' = FALSE
    /\ io_threads' = io_threads - 1
    /\ disconnect_pc' = "none"
    /\ main_pc' = return_pc
    /\ UNCHANGED <<running_, connected_, io_thread_, g_running, stage, steps, invoked,
                   read_error, return_pc, reads_outstanding, call>>
    /\ UNCHANGED <<handler_vars, threads_rest>>

\* main after Disconnect: the final statistics read the book
MainStats ==
    /\ main_pc = "stats"
    /\ call' = <<[op |-> "GetUpdateCount", result |-> book.update_count_]>>
    /\ main_pc' = "done"
    /\ UNCHANGED <<running_, connected_, io_thread_, ioc_stopped, conn_vars,
                   reads_outstanding>>
    /\ UNCHANGED <<handler_vars, threads_rest>>

\* OnResolve, OnConnect or OnSslHandshake without error: the next operation
\* of the chain is issued
IoStepSucceeds ==
    /\ Dispatching
    /\ stage \in {"resolve", "connect", "tls"}
    /\ steps' = Append(steps, stage)
    /\ stage' = NextStage(stage)
    /\ UNCHANGED <<main_pc, running_, connected_, io_thread_, ioc_stopped, g_running, invoked,
                   read_error, io_threads, disconnect_pc, return_pc, reads_outstanding, call>>
    /\ UNCHANGED <<handler_vars, threads_rest>>

\* BinanceClient::OnHandshake without error: connected_ is set, on_connected_
\* is called and the first read is issued
IoHandshake ==
    /\ Dispatching
    /\ stage = "websocket"
    /\ steps' = Append(steps, stage)
    /\ stage' = "open"
    /\ connected_' = TRUE
    /\ invoked' = invoked \cup {"connected"}
    /\ IF running_ THEN reads_outstanding' = 1 /\ UNCHANGED handler_pc
       ELSE handler_pc' = "stopped" /\ UNCHANGED reads_outstanding
    /\ UNCHANGED <<main_pc, running_, io_thread_, ioc_stopped, g_running, read_error,
                   io_threads, disconnect_pc, return_pc, call>>
    /\ UNCHANGED <<handler_data, threads_rest>>

\* OnResolve, OnConnect, OnSslHandshake or OnHandshake with an error:
\* on_error_ is called and nothing more is issued
IoConnectFails ==
    /\ Dispatching
    /\ Connecting
    /\ stage' = "failed"
    /\ invoked' = invoked \cup {"error"}
    /\ handler_pc' = "stopped"
    /\ UNCHANGED <<main_pc, running_, connected_, io_thread_, ioc_stopped, g_running, steps,
                   read_error, io_threads, disconnect_pc, return_pc, reads_outstanding, call>>
    /\ UNCHANGED <<handler_data, threads_rest>>

\* OnConnect without error, but SSL_set_tlsext_host_name fails: on_error_
\* is called and the TLS handshake is not issued
IoSniFails ==
    /\ Dispatching
    /\ stage = "connect"
    /\ steps' = Append(steps, stage)
    /\ stage' = "failed"
    /\ invoked' = invoked \cup {"error"}
    /\ handler_pc' = "stopped"
    /\ UNCHANGED <<main_pc, running_, connected_, io_thread_, ioc_stopped, g_running,
                   read_error, io_threads, disconnect_pc, return_pc, reads_outstanding, call>>
    /\ UNCHANGED <<handler_data, threads_rest>>

\* BinanceClient::OnRead with an error: no read is issued again
IoReadFails ==
    /\ Dispatching
    /\ handler_pc = "idle"
    /\ buffer_ = <<>>
    /\ reads_outstanding > 0
    /\ \E ec \in ReadErrors :
          /\ read_error' = <<ec>>
          /\ connected_' = IF ec = "closed" THEN FALSE ELSE connected_
          /\ invoked' = IF ec = "closed" THEN invoked \cup {"disconnected"}
                        ELSE IF running_ THEN invoked \cup {"error"}
                        ELSE invoked
    /\ reads_outstanding' = reads_outstanding - 1
    /\ handler_pc' = "stopped"
    /\ UNCHANGED <<main_pc, running_, io_thread_, ioc_stopped, g_running, stage, steps,
                   io_threads, disconnect_pc, return_pc, call>>
    /\ UNCHANGED <<handler_data, threads_rest>>

\* the outstanding read completes with a frame
IoFrameArrives ==
    /\ Dispatching
    /\ reads_outstanding > 0
    /\ \E message \in ThreadMessages : AsyncReadCompletes(message)
    /\ UNCHANGED <<thread_vars, call, threads_rest>>

\* OnRead handles the frame; a handler that ioc_.stop() finds in execution
\* runs to its end
IoHandle == io_thread_ = "running" /\ Handle

\* the REST call of the handler ends
IoResponseArrives ==
    /\ io_thread_ = "running"
    /\ handler_pc = "fetching"
    /\ res = <<>>
    /\ \E response \in ThreadResponses : res' = <<response>>
    /\ UNCHANGED <<book, last_update_id, synchronized, buffer_, handler_pc, samples_,
                   strategy_calls, error_reports, resync_count, handled>>
    /\ UNCHANGED <<thread_vars, reads_outstanding, call, threads_rest>>

IoFetched == io_thread_ = "running" /\ Fetched

IoReadAgain == io_thread_ = "running" /\ ReadAgain

\* ioc_.run() returns, and with it RunIoContext and the thread: ioc_ is
\* stopped and no handler is in execution, or no operation is outstanding
IoExit ==
    /\ io_thread_ = "running"
    /\ \/ ioc_stopped /\ HandlerAtRest
       \/ handler_pc = "stopped"
    /\ io_thread_' = "finished"
    /\ UNCHANGED <<main_pc, running_, connected_, ioc_stopped, conn_vars, reads_outstanding,
                   call>>
    /\ UNCHANGED <<handler_vars, threads_rest>>

NextThreads ==
    \/ MainConnect
    \/ SignalArrives
    \/ MainSeesConnected
    \/ MainGivesUp
    \/ MainDisconnect
    \/ DisconnectChecks
    \/ DoCloseReturns
    \/ IocStop
    \/ ThreadJoin
    \/ MainStats
    \/ IoStepSucceeds
    \/ IoHandshake
    \/ IoConnectFails
    \/ IoSniFails
    \/ IoReadFails
    \/ IoFrameArrives
    \/ IoHandle
    \/ IoResponseArrives
    \/ IoFetched
    \/ IoReadAgain
    \/ IoExit

SpecThreads == InitThreads /\ [][NextThreads]_vars

(***************************************************************************)
(* Specification SpecShutdown: SpecThreads with the steps the program      *)
(* takes by itself taken in the end.  main does not sleep for ever: its    *)
(* loops poll their conditions and the first one counts to a timeout; the  *)
(* I/O thread runs a handler whose event has arrived and returns from      *)
(* ioc_.run() when it may.  What the network delivers and when (the steps  *)
(* of the chain, a frame, a read error, the response of the REST call, the *)
(* end of the blocking ws_->close) is left open: no call of the client     *)
(* sets a timeout.                                                         *)
(***************************************************************************)
\* the steps of the main thread that wait for nothing but the I/O thread
MainProceeds ==
    \/ MainConnect
    \/ MainSeesConnected
    \/ MainGivesUp
    \/ MainDisconnect
    \/ DisconnectChecks
    \/ IocStop
    \/ ThreadJoin
    \/ MainStats

\* the steps of the I/O thread that wait for nothing
IoProceeds == IoHandle \/ IoFetched \/ IoReadAgain \/ IoExit

SpecShutdown ==
    /\ InitThreads
    /\ [][NextThreads]_vars
    /\ WF_vars(MainProceeds)
    /\ WF_vars(IoProceeds)

(***************************************************************************)
(* Specification SpecClient: a user thread calls Connect and Disconnect of *)
(* one client in any order, each call after the one before has returned;   *)
(* the I/O thread of the client runs as in SpecThreads.                    *)
(***************************************************************************)
\* calls the user has made
Calls == IF call = <<>> THEN 0 ELSE call[1].n

InitClient == InitObjects /\ InitStrategies /\ main_pc = "user" /\ Constructed

\* client->Connect(), called by the user
UserConnect ==
    /\ main_pc = "user"
    /\ Calls < MaxCalls
    /\ Connect
    /\ call' = <<[op |-> "Connect", n |-> Calls + 1, running |-> running_]>>
    /\ UNCHANGED <<main_pc, connected_, ioc_stopped, g_running, disconnect_pc, return_pc>>
    /\ UNCHANGED <<handler_data, threads_rest>>

\* client->Disconnect(), called by the user
UserDisconnect ==
    /\ main_pc = "user"
    /\ Calls < MaxCalls
    /\ DisconnectBegins("user")
    /\ call' = <<[op |-> "Disconnect", n |-> Calls + 1, running |-> running_]>>

NextClient ==
    \/ UserConnect
    \/ UserDisconnect
    \/ DisconnectChecks
    \/ DoCloseReturns
    \/ IocStop
    \/ ThreadJoin
    \/ IoStepSucceeds
    \/ IoHandshake
    \/ IoConnectFails
    \/ IoSniFails
    \/ IoReadFails
    \/ IoFrameArrives
    \/ IoHandle
    \/ IoResponseArrives
    \/ IoFetched
    \/ IoReadAgain
    \/ IoExit

SpecClient == InitClient /\ [][NextClient]_vars

(***************************************************************************)
(* Specification SpecPure: the conversions of SymbolConfig and             *)
(* LatencyStats::Calculate are applied to inputs drawn at the start: a     *)
(* value or a string with a number of decimals, or the samples collected.  *)
(***************************************************************************)
\* the numbers of decimals of the conversions
DecimalsRange == 0..3

\* the values FixedToString formats
FixedValues == (0..MaxFixed) \cup {999, 1000, 99999, 3000050}

\* the characters of the strings StringToFixed converts
StringChars == {"0", "3", "9", "."}

\* strings of at most MaxDigits characters with at most one '.'
DecimalStrings ==
    {str \in UNION {[1..n -> StringChars] : n \in 0..MaxDigits} :
        Cardinality({i \in 1..Len(str) : str[i] = "."}) <= 1}

\* the samples of a collector
SampleValues == {250, 300, 900}

CollectedSamples == UNION {[1..n -> SampleValues] : n \in 0..MaxCollected}

InitPure ==
    /\ InitFeed
    /\ InitStrategies
    /\ Streaming
    /\ \/ /\ samples_ = <<>>
          /\ call \in {<<[op |-> "value", value |-> v, decimals |-> d]>> :
                          v \in FixedValues, d \in DecimalsRange}
       \/ /\ samples_ = <<>>
          /\ call \in {<<[op |-> "string", string |-> str, decimals |-> d]>> :
                          str \in DecimalStrings, d \in DecimalsRange}
       \/ /\ samples_ \in CollectedSamples
          /\ call = <<>>

\* what the conversions and Calculate leave alone
pure_rest ==
    <<book, last_update_id, synchronized, buffer_, handler_pc, res, strategy_calls,
      error_reports, resync_count, handled, exch_seq, exch_hist, wire, strategy_vars,
      latency_vars, thread_vars, reads_outstanding>>

\* SymbolConfig::FixedToString(value, decimals)
ApplyFixedToString ==
    /\ call # <<>>
    /\ call[1].op = "value"
    /\ call' = <<[op |-> "FixedToString", value |-> call[1].value,
                  decimals |-> call[1].decimals,
                  result |-> FixedToString(call[1].value, call[1].decimals)]>>
    /\ UNCHANGED <<samples_, pure_rest>>

\* SymbolConfig::StringToFixed(s, decimals)
ApplyStringToFixed ==
    /\ call # <<>>
    /\ call[1].op = "string"
    /\ call' = <<[op |-> "StringToFixed", string |-> call[1].string,
                  decimals |-> call[1].decimals,
                  result |-> StringToFixed(call[1].string, call[1].decimals)]>>
    /\ UNCHANGED <<samples_, pure_rest>>

\* latency_stats.Calculate(): const, it sorts a copy of samples_
ApplyCalculate ==
    /\ call = <<>>
    /\ call' = <<[op |-> "Calculate", result |-> CalculateStats(samples_)]>>
    /\ UNCHANGED <<samples_, pure_rest>>

NextPure == ApplyFixedToString \/ ApplyStringToFixed \/ ApplyCalculate

SpecPure == InitPure /\ [][NextPure]_vars

(***************************************************************************)
(* What the claims speak of.                                               *)
(***************************************************************************)
\* the well-formed entries of a JSON array field, as <<price, qty>> pairs
RawLevels(field) ==
    IF field = <<>> THEN <<>>
    ELSE LET good == SelectSeq(field[1], LAMBDA entry : entry.ok)
         IN  [i \in 1..Len(good) |-> <<good[i].price, good[i].qty>>]

\* a price -> quantity map after each <<price, qty>> pair of levels was set
\* in list order: the last pair of a price decides, quantity zero removes
LevelsAfter(map, levels) ==
    LET touched == {FixedPrice[levels[i][1]] : i \in 1..Len(levels)}
        lastAt(x) == CHOOSE i \in 1..Len(levels) :
                        /\ FixedPrice[levels[i][1]] = x
                        /\ \A j \in (i + 1)..Len(levels) : FixedPrice[levels[j][1]] # x
        final(x) == FixedQuantity[levels[lastAt(x)][2]]
        keys == ((DOMAIN map) \ touched) \cup {x \in touched : final(x) # 0}
    IN  [x \in keys |-> IF x \in touched THEN final(x) ELSE map[x]]

\* the update parsed from the frame that waits in buffer_
FrameUpdate == ParseDepthUpdate(buffer_[1], NewDepthUpdate(0)).update

\* this step is the handler run on the frame in buffer_
HandlerRuns == handler_pc = "idle" /\ buffer_ # <<>> /\ handler_pc' # "idle"

\* this step runs the handler in the Live state on a frame that parsed
LiveRun ==
    /\ HandlerRuns
    /\ synchronized
    /\ ParseDepthUpdate(buffer_[1], NewDepthUpdate(0)).ok

\* this step ends the snapshot fetch with the response in res
FetchEnds == handler_pc = "fetching" /\ res # <<>> /\ handler_pc' = "returned"

\* the sequence rule of the Live state
Stale(update, last) == update.final_update_id <= last

Contiguous(update, last) ==
    update.first_update_id <= last + 1 /\ last + 1 <= update.final_update_id

Gap(update, last) ==
    /\ update.first_update_id > last + 1
    /\ update.first_update_id <= update.final_update_id

LevelsUnchanged == book'.bids_ = book.bids_ /\ book'.asks_ = book.asks_

\* the book holds the true book at the sequence number last_update_id
BookIsTrueBook ==
    /\ last_update_id \in 0..exch_seq
    /\ book.bids_ = TrueSideFixed(TrueBookAt(last_update_id).bids)
    /\ book.asks_ = TrueSideFixed(TrueBookAt(last_update_id).asks)

(***************************************************************************)
(* The claims.                                                             *)
(***************************************************************************)
\* C1: whenever the handler treats the book as synchronized, the book equals
\* the exchange's true book at the sequence number held in last_update_id,
\* also when updates are missing from the stream
C1_SynchronizedBookIsTrueBook == synchronized => BookIsTrueBook

\* C2: in the Live state an update with first_update_id > last_update_id + 1
\* changes no level, leaves last_update_id unchanged and makes the
\* synchronizer unsynchronized
C2_GapUpdateRejected ==
    [][(LiveRun /\ Gap(FrameUpdate, last_update_id)) =>
          (LevelsUnchanged /\ last_update_id' = last_update_id /\ ~synchronized')]_vars

\* C3: the resync counter never decreases, grows by exactly 1 when the
\* handler is given a sequence gap and by 0 on every other update
C3_ResyncCounterCountsGaps ==
    [][HandlerRuns =>
          resync_count' = resync_count +
              (IF LiveRun /\ Gap(FrameUpdate, last_update_id) THEN 1 ELSE 0)]_vars

\* C4: in the Live state an update with first_update_id <= last_update_id + 1
\* <= final_update_id has every pair of its bid list applied to the bid side
\* and every pair of its ask list to the ask side, and last_update_id becomes
\* its final_update_id
C4_ContiguousUpdateApplied ==
    [][(LiveRun /\ Contiguous(FrameUpdate, last_update_id)) =>
          /\ book'.bids_ = LevelsAfter(book.bids_, RawLevels(buffer_[1].b))
          /\ book'.asks_ = LevelsAfter(book.asks_, RawLevels(buffer_[1].a))
          /\ book'.update_count_ = book.update_count_
                + Len(RawLevels(buffer_[1].b)) + Len(RawLevels(buffer_[1].a))
          /\ last_update_id' = FrameUpdate.final_update_id]_vars

\* the update [95, 101] with a bid and an ask was applied at last_update_id 100
C4_Witness ==
    /\ synchronized
    /\ handled # <<>>
    /\ handled[1].last = 100
    /\ handled[1].update.first_update_id = 95
    /\ handled[1].update.final_update_id = 101
    /\ handled[1].update.bids = <<(<<Str_99_50, Str_2_0>>)>>
    /\ handled[1].update.asks = <<(<<Str_100_50, Str_0_5>>)>>
    /\ last_update_id = 101
    /\ GetQuantityAt(book, kBuy, 9950) = 200000000
    /\ GetQuantityAt(book, kSell, 10050) = 50000000

\* C5: in the Live state an update with final_update_id <= last_update_id
\* leaves every level, the update counter and last_update_id unchanged and
\* invokes no strategy; so does the update just applied when it comes again
C5_StaleUpdateDiscarded ==
    [][(LiveRun /\ Stale(FrameUpdate, last_update_id)) =>
          /\ book' = book
          /\ last_update_id' = last_update_id
          /\ strategy_calls' = 0
          /\ samples_' = samples_]_vars

\* an update whose final_update_id is that of the update applied before it
\* (101) was handled again and discarded
C5_Witness ==
    /\ synchronized
    /\ handled # <<>>
    /\ handled[1].update.final_update_id = 101
    /\ handled[1].update.bids # <<>>
    /\ handled[1].last = 101
    /\ last_update_id = 101
    /\ samples_ # <<>>
    /\ strategy_calls = 0

\* C6: once a snapshot has been applied last_update_id never decreases,
\* whatever the first / final ids of the updates and their order
C6_LastUpdateIdNeverDecreases ==
    [][synchronized => last_update_id' >= last_update_id]_vars

\* after last_update_id went beyond the snapshot's, an update with a lower
\* final id and inverted bounds was handled and last_update_id stayed
C6_Witness ==
    /\ synchronized
    /\ samples_ # <<>>
    /\ handled # <<>>
    /\ handled[1].update.final_update_id < handled[1].last
    /\ handled[1].update.first_update_id > handled[1].update.final_update_id
    /\ last_update_id = handled[1].last
    /\ last_update_id > 100

\* C7: while synchronized is false no pair of an incremental update is
\* applied: a step leaves the book as it is, or it ends the fetch and the
\* book holds the levels of the snapshot and nothing else
C7_NoUpdateAppliedBeforeSync ==
    [][~synchronized =>
          \/ book' = book
          \/ /\ FetchEnds
             /\ synchronized'
             /\ book'.bids_ = LevelsAfter(EmptyMap, RawLevels(res[1].bids))
             /\ book'.asks_ = LevelsAfter(EmptyMap, RawLevels(res[1].asks))
             /\ book'.update_count_ = book.update_count_
                   + Len(RawLevels(res[1].bids)) + Len(RawLevels(res[1].asks))]_vars

\* the fetch a first update triggered has ended: the book was built by the
\* two Update calls of the snapshot and no update has been applied
C7_Witness ==
    /\ synchronized
    /\ handler_pc = "returned"
    /\ handled = <<>>
    /\ samples_ = <<>>
    /\ book.update_count_ = 2
    /\ DOMAIN book.bids_ = {9950}
    /\ DOMAIN book.asks_ = {10050}

\* a response that is a structurally valid snapshot
ValidSnapshot(response) ==
    /\ response.kind = "body"
    /\ response.doc_ok
    /\ response.lastUpdateId # <<>>
    /\ response.bids # <<>>
    /\ response.asks # <<>>
    /\ \A i \in 1..Len(response.bids[1]) : response.bids[1][i].ok
    /\ \A i \in 1..Len(response.asks[1]) : response.asks[1][i].ok

\* the snapshot of the example: bids (100.00, 1.0), (99.50, 2.0), asks (100.50, 0.5)
ExampleSnapshot(response) ==
    /\ response.bids = <<(<<Level(Str_100_00, Str_1_0), Level(Str_99_50, Str_2_0)>>)>>
    /\ response.asks = <<(<<Level(Str_100_50, Str_0_5)>>)>>

\* a snapshot body with no bid and the ask (100.50, 0.5)
AsksOnlyResponse ==
    [kind |-> "body", doc_ok |-> TRUE, lastUpdateId |-> <<100>>,
     bids |-> <<(<<>>)>>, asks |-> <<(<<Level(Str_100_50, Str_0_5)>>)>>]

\* the snapshot application of the try block leaves exactly the levels of
\* the snapshot, whatever levels the book b held
SnapshotReplaces(b) ==
    LET after == ApplySnapshot(b, FetchDepthSnapshot(AsksOnlyResponse, 0).snapshot)
    IN  /\ after.bids_ = EmptyMap
        /\ after.bid_prices_ = {}
        /\ after.asks_ = (10050 :> 50000000)
        /\ after.ask_prices_ = {10050}
        /\ GetBestBid(after) = nullopt
        /\ GetLevelCount(after, kBuy) = 0

\* C8: when a snapshot arrives it is applied through Update on a cleared
\* book, last_update_id becomes its lastUpdateId and the state synchronized;
\* each side then holds exactly the snapshot's prices with non-zero quantity
\* and nothing of what the book held.  For bids (100.00, 1.0), (99.50, 2.0)
\* and asks (100.50, 0.5): best bid 100.00, best ask 100.50, spread 0.50,
\* two bid levels
C8_SnapshotApplied ==
    [][/\ (book' # book) => SnapshotReplaces(book')
       /\ (FetchEnds /\ ValidSnapshot(res[1])) =>
          /\ synchronized'
          /\ last_update_id' = res[1].lastUpdateId[1]
          /\ book'.bids_ = LevelsAfter(EmptyMap, RawLevels(res[1].bids))
          /\ book'.asks_ = LevelsAfter(EmptyMap, RawLevels(res[1].asks))
          /\ book'.bid_prices_ = DOMAIN book'.bids_
          /\ book'.ask_prices_ = DOMAIN book'.asks_
          /\ \A x \in DOMAIN book'.bids_ : book'.bids_[x] # 0
          /\ \A x \in DOMAIN book'.asks_ : book'.asks_[x] # 0
          /\ book'.update_count_ = book.update_count_
                + Len(res[1].bids[1]) + Len(res[1].asks[1])
          /\ ExampleSnapshot(res[1]) =>
                /\ GetBestBid(book') = <<10000>>
                /\ GetBestAsk(book') = <<10050>>
                /\ GetSpread(book') = <<50>>
                /\ GetLevelCount(book', kBuy) = 2
      ]_vars

\* the snapshot of the example has just been applied
C8_Witness ==
    /\ synchronized
    /\ handler_pc = "returned"
    /\ samples_ = <<>>
    /\ last_update_id = 100
    /\ book.bids_ = (10000 :> 100000000) @@ (9950 :> 200000000)
    /\ book.asks_ = (10050 :> 50000000)
    /\ book.update_count_ = 3
    /\ GetSpread(book) = <<50>>

\* a fetch that failed: a network error, or a body that is no snapshot
FailedFetch(response) ==
    \/ response.kind = "network_error"
    \/ ~response.doc_ok
    \/ response.lastUpdateId = <<>>

\* C9: a snapshot fetch that fails by a network error or by a response that
\* is no snapshot leaves the levels and last_update_id as they were and the
\* synchronizer not synchronized
C9_FailedFetchChangesNothing ==
    [][(FetchEnds /\ FailedFetch(res[1])) =>
          (LevelsUnchanged /\ last_update_id' = last_update_id /\ ~synchronized')]_vars

\* a frame that parses as a depth update and fails structural validation
MalformedUpdate(frame) ==
    \/ frame.b = <<>>
    \/ frame.a = <<>>
    \/ \E i \in 1..Len(frame.b[1]) : ~frame.b[1][i].ok
    \/ \E i \in 1..Len(frame.a[1]) : ~frame.a[1][i].ok
    \/ frame.U[1] > frame.u[1]

\* C10: an update that fails structural validation (a missing side, a
\* malformed level entry, first_update_id > final_update_id) has no level
\* applied, leaves last_update_id unchanged and is reported as an error
C10_MalformedUpdateRejected ==
    [][(LiveRun /\ MalformedUpdate(buffer_[1])) =>
          (LevelsUnchanged /\ last_update_id' = last_update_id /\ error_reports' > 0)]_vars

\* C11: an update received after the snapshot fetch was issued is not dropped
\* unconditionally: once the snapshot is applied it is evaluated against the
\* sequence rule, discarded when stale, applied when contiguous, rejected
\* when it leaves a gap; only an update that finds the book unsynchronized
\* is discarded without evaluation
C11_UpdateAfterFetchEvaluated ==
    [][(HandlerRuns /\ ParseDepthUpdate(buffer_[1], NewDepthUpdate(0)).ok) =>
          IF ~synchronized
          THEN LevelsUnchanged /\ last_update_id' = last_update_id
          ELSE IF Stale(FrameUpdate, last_update_id)
          THEN LevelsUnchanged /\ last_update_id' = last_update_id
          ELSE IF Contiguous(FrameUpdate, last_update_id)
          THEN /\ book'.bids_ = LevelsAfter(book.bids_, RawLevels(buffer_[1].b))
               /\ book'.asks_ = LevelsAfter(book.asks_, RawLevels(buffer_[1].a))
               /\ last_update_id' = FrameUpdate.final_update_id
          ELSE LevelsUnchanged /\ last_update_id' = last_update_id]_vars

\* this step issues a snapshot fetch
FetchIssued == handler_pc # "fetching" /\ handler_pc' = "fetching"

\* C12: a snapshot fetch is issued only by the handler run on an incremental
\* update that finds the book unsynchronized; such a run issues one fetch,
\* in which the handler stays until it ends, and applies nothing of the
\* update that triggered it
C12_FirstUpdateIssuesFetch ==
    [][/\ FetchIssued =>
             /\ HandlerRuns
             /\ ParseDepthUpdate(buffer_[1], NewDepthUpdate(0)).ok
             /\ ~synchronized
       /\ (HandlerRuns /\ ~synchronized
              /\ ParseDepthUpdate(buffer_[1], NewDepthUpdate(0)).ok) =>
             /\ FetchIssued
             /\ res' = <<>>
             /\ book' = book
             /\ last_update_id' = last_update_id
             /\ ~synchronized'
       /\ handler_pc = "fetching" =>
             (handler_pc' = "fetching" \/ (res # <<>> /\ handler_pc' = "returned"))
      ]_vars

\* the first update has been handled: the fetch is outstanding and the book
\* is as constructed
C12_Witness ==
    /\ handler_pc = "fetching"
    /\ res = <<>>
    /\ buffer_ = <<>>
    /\ ~synchronized
    /\ book = NewBook
    /\ last_update_id = 0
    /\ error_reports = 0

\* the prices of a side that hold a non-zero quantity, by a scan of all prices
LevelPrices(side) == {p \in BookPrices : GetQuantityAt(book, side, p) # 0}

\* the largest / smallest element of a non-empty set of prices
MaxOf(S) == CHOOSE x \in S : \A y \in S : y <= x

MinOf(S) == CHOOSE x \in S : \A y \in S : x <= y

\* the latest call of the user of the book
Called(op) == call # <<>> /\ call[1].op = op

\* C13: after any sequence of Update, Clear() and Clear(side) calls the keys
\* of bids_ are the prices of bid_prices_ and the keys of asks_ those of
\* ask_prices_; GetTopLevels never looks up a price the map lacks, and
\* GetLevelCount is the number of prices whose GetQuantityAt is non-zero
C13_MapAndSortedSetAgree ==
    /\ DOMAIN book.bids_ = book.bid_prices_
    /\ DOMAIN book.asks_ = book.ask_prices_
    /\ \A side \in Sides :
          /\ \A n \in 0..MaxTopN : ~GetTopLevels(book, side, n).threw
          /\ GetLevelCount(book, side) = Cardinality(LevelPrices(side))

\* Clear(kBuy) emptied a bid side that held levels and left the asks
C13_Witness ==
    /\ Called("ClearSide")
    /\ call[1].side = kBuy
    /\ book.update_count_ >= 3
    /\ book.bid_prices_ = {}
    /\ book.ask_prices_ = {9950, 10051}
    /\ book.cached_best_bid_ = <<10000>>

\* C14: whenever cache_valid_ is true the cached best bid / ask is the first
\* element of bid_prices_ / ask_prices_, or none for an empty set; every
\* Update, Clear() and Clear(side) leaves cache_valid_ false
C14_ValidCacheIsFresh ==
    /\ book.cache_valid_ =>
          /\ book.cached_best_bid_ =
                (IF book.bid_prices_ = {} THEN <<>> ELSE <<MaxOf(book.bid_prices_)>>)
          /\ book.cached_best_ask_ =
                (IF book.ask_prices_ = {} THEN <<>> ELSE <<MinOf(book.ask_prices_)>>)
    /\ (Called("Update") \/ Called("Clear") \/ Called("ClearSide")) => ~book.cache_valid_

\* with best bid 10000 cached, Update(kBuy, 9950, 0) on the absent price 9950
\* left the best price as it was and the cache invalid
C14_Witness ==
    /\ Called("Update")
    /\ call[1].side = kBuy /\ call[1].price = 9950 /\ call[1].quantity = 0
    /\ call[1].previous = 0
    /\ book.bid_prices_ = {10000}
    /\ book.cached_best_bid_ = <<10000>>
    /\ ~book.cache_valid_

\* C15: after every interleaving of Update, Clear and query calls GetBestBid
\* returns the highest and GetBestAsk the lowest price of its side with a
\* non-zero quantity, found by a scan of all prices, and none exactly when
\* the side has no level; also right after a mutation that follows a query
C15_BestPriceIsScanExtreme ==
    /\ GetBestBid(book) =
          (IF LevelPrices(kBuy) = {} THEN <<>> ELSE <<MaxOf(LevelPrices(kBuy))>>)
    /\ GetBestAsk(book) =
          (IF LevelPrices(kSell) = {} THEN <<>> ELSE <<MinOf(LevelPrices(kSell))>>)
    /\ Called("GetBestBid") => call[1].result = GetBestBid(book)
    /\ Called("GetBestAsk") => call[1].result = GetBestAsk(book)

\* the best bid 10000 was cached, then removed: the next best bid is 9950
C15_Witness ==
    /\ Called("Update")
    /\ call[1].side = kBuy /\ call[1].price = 10000 /\ call[1].quantity = 0
    /\ call[1].previous # 0
    /\ book.cached_best_bid_ = <<10000>>
    /\ GetBestBid(book) = <<9950>>
    /\ GetBestAsk(book) = <<>>

\* C16: no level of quantity zero exists on either side, whatever Update
\* calls (quantity 0 on present and absent prices included) and Clear calls
\* were made
C16_NoZeroQuantityLevel ==
    /\ \A p \in DOMAIN book.bids_ : book.bids_[p] # 0
    /\ \A p \in DOMAIN book.asks_ : book.asks_[p] # 0

\* Update(kSell, 10051, 0) removed the ask at 10051 and left the one at 10000
C16_Witness ==
    /\ Called("Update")
    /\ call[1].side = kSell /\ call[1].price = 10051 /\ call[1].quantity = 0
    /\ call[1].previous # 0
    /\ DOMAIN book.asks_ = {10000}
    /\ book.ask_prices_ = {10000}

\* this step is a call of Update; its arguments are in call'
UpdateCalled ==
    /\ call' # <<>>
    /\ call'[1].op = "Update"
    /\ book'.update_count_ = book.update_count_ + 1

\* the prices GetTopLevels(side, n) returns for the book b
TopPrices(b, side, n) ==
    LET r == GetTopLevels(b, side, n).result IN {r[i].price : i \in 1..Len(r)}

\* the prices of a side of the book b with a non-zero quantity
LevelPricesOf(b, side) == {p \in BookPrices : GetQuantityAt(b, side, p) # 0}

\* both sides of the book are as they were
SidesUnchanged ==
    /\ book'.bids_ = book.bids_ /\ book'.bid_prices_ = book.bid_prices_
    /\ book'.asks_ = book.asks_ /\ book'.ask_prices_ = book.ask_prices_

\* C17: immediately after Update(side, P, 0), GetQuantityAt(side, P) is 0, P
\* is in GetTopLevels(side, n) for no n and is not counted by GetLevelCount;
\* when P was absent before the call the levels of the side are unchanged
C17_ZeroQuantityRemoves ==
    [][(UpdateCalled /\ call'[1].quantity = 0) =>
          LET side == call'[1].side
              P == call'[1].price
          IN  /\ GetQuantityAt(book', side, P) = 0
              /\ \A n \in 0..MaxTopN : P \notin TopPrices(book', side, n)
              /\ GetLevelCount(book', side) = Cardinality(LevelPricesOf(book, side) \ {P})
              /\ GetQuantityAt(book, side, P) = 0 => SidesUnchanged]_vars

\* Update(kBuy, 10051, 0) removed the best of three bids
C17_Witness ==
    /\ Called("Update")
    /\ call[1].side = kBuy /\ call[1].price = 10051 /\ call[1].quantity = 0
    /\ call[1].previous # 0
    /\ GetQuantityAt(book, kBuy, 10051) = 0
    /\ TopPrices(book, kBuy, MaxTopN) = {9950, 10000}
    /\ GetLevelCount(book, kBuy) = 2

\* C18: after Update(side, P, Q) with Q non-zero, GetQuantityAt(side, P) is
\* Q, the quantity P held being overwritten, and GetLevelCount(side) is one
\* more than before when P was absent and the same when P was present
C18_NonZeroQuantityStored ==
    [][(UpdateCalled /\ call'[1].quantity # 0) =>
          LET side == call'[1].side
              P == call'[1].price
          IN  /\ GetQuantityAt(book', side, P) = call'[1].quantity
              /\ GetLevelCount(book', side) =
                    GetLevelCount(book, side)
                       + (IF GetQuantityAt(book, side, P) = 0 THEN 1 ELSE 0)]_vars

\* Update(kBuy, 10000, 1.0) overwrote the quantity 0.5 at 10000
C18_Witness ==
    /\ Called("Update")
    /\ call[1].side = kBuy /\ call[1].price = 10000 /\ call[1].quantity = 100000000
    /\ call[1].previous = 50000000
    /\ GetQuantityAt(book, kBuy, 10000) = 100000000
    /\ GetLevelCount(book, kBuy) = 1

\* the side opposite to side
Opposite(side) == IF side = kBuy THEN kSell ELSE kBuy

\* C19: Update(side, P, Q) changes no level other than P on its side and no
\* level of the opposite side, also when the book is crossed by it: a bid
\* at or above the best ask (an ask at or below the best bid) is stored as
\* given and GetSpread returns best ask minus best bid, zero or negative
C19_UpdateTouchesOnePrice ==
    [][UpdateCalled =>
          LET side == call'[1].side
              P == call'[1].price
              Q == call'[1].quantity
              crossing ==
                  /\ Q # 0
                  /\ LevelPricesOf(book, Opposite(side)) # {}
                  /\ IF side = kBuy THEN P >= MinOf(LevelPricesOf(book, kSell))
                     ELSE P <= MaxOf(LevelPricesOf(book, kBuy))
          IN  /\ \A p \in BookPrices \ {P} :
                    GetQuantityAt(book', side, p) = GetQuantityAt(book, side, p)
              /\ \A p \in BookPrices :
                    GetQuantityAt(book', Opposite(side), p) = GetQuantityAt(book, Opposite(side), p)
              /\ LevelPricesOf(book', Opposite(side)) = LevelPricesOf(book, Opposite(side))
              /\ GetLevelCount(book', Opposite(side)) = GetLevelCount(book, Opposite(side))
              /\ crossing =>
                    /\ GetQuantityAt(book', side, P) = Q
                    /\ GetSpread(book') =
                          <<MinOf(LevelPricesOf(book', kSell)) - MaxOf(LevelPricesOf(book', kBuy))>>
                    /\ GetSpread(book')[1] <= 0]_vars

\* the bid at 10051 was put above the ask at 9950: the spread is -101
C19_Witness ==
    /\ Called("Update")
    /\ call[1].side = kBuy /\ call[1].price = 10051 /\ call[1].quantity # 0
    /\ call[1].previous = 0
    /\ book.ask_prices_ = {9950}
    /\ GetQuantityAt(book, kBuy, 10051) = call[1].quantity
    /\ GetSpread(book) = <<-101>>

\* the smaller of two numbers
Min(a, b) == IF a <= b THEN a ELSE b

\* what the claim says of r as the value of GetTopLevels(side, n)
IsTopLevels(r, side, n) ==
    LET prices == LevelPrices(side)
        got == {r[i].price : i \in 1..Len(r)}
    IN  /\ Len(r) = Min(n, GetLevelCount(book, side))
        /\ got \subseteq prices
        /\ \A i \in 1..Len(r) : r[i].quantity = GetQuantityAt(book, side, r[i].price)
        /\ \A i \in 1..Len(r) : r[i].quantity # 0
        /\ \A i \in 1..(Len(r) - 1) :
              IF side = kBuy THEN r[i].price > r[i + 1].price
              ELSE r[i].price < r[i + 1].price
        /\ \A x \in got, y \in prices \ got : IF side = kBuy THEN x > y ELSE x < y

\* C20: for every book, side and n, GetTopLevels(side, n) returns exactly
\* min(n, GetLevelCount(side)) entries: the best prices of the side, each
\* with its quantity, in strictly decreasing price order for bids and
\* strictly increasing for asks; none for n = 0 and none on an empty side
C20_TopLevelsAreTheBest ==
    /\ \A side \in Sides, n \in 0..MaxTopN :
          /\ ~GetTopLevels(book, side, n).threw
          /\ IsTopLevels(GetTopLevels(book, side, n).result, side, n)
          /\ (n = 0 \/ LevelPrices(side) = {}) => GetTopLevels(book, side, n).result = <<>>
    /\ Called("GetTopLevels") =>
          /\ ~call[1].returned.threw
          /\ IsTopLevels(call[1].returned.result, call[1].side, call[1].n)

\* GetTopLevels(kBuy, 2) returned the two best of three bids, best first
C20_Witness ==
    /\ Called("GetTopLevels")
    /\ call[1].side = kBuy /\ call[1].n = 2
    /\ GetLevelCount(book, kBuy) = 3
    /\ Len(call[1].returned.result) = 2
    /\ call[1].returned.result[1].price = 10051
    /\ call[1].returned.result[2].price = 10000

\* C21: when both sides hold a level GetSpread returns the best ask minus the
\* best bid and GetMidPrice their sum halved by integer division, the best
\* prices being those of the book as it is now and never a cached price that
\* has since been removed; when a side holds no level both return none
C21_SpreadAndMidFromCurrentBest ==
    LET bids == LevelPrices(kBuy)
        asks == LevelPrices(kSell)
    IN  /\ IF bids # {} /\ asks # {}
           THEN /\ GetSpread(book) = <<MinOf(asks) - MaxOf(bids)>>
                /\ GetMidPrice(book) # nullopt
                /\ 2 * GetMidPrice(book)[1] <= MaxOf(bids) + MinOf(asks)
                /\ MaxOf(bids) + MinOf(asks) < 2 * GetMidPrice(book)[1] + 2
           ELSE GetSpread(book) = nullopt /\ GetMidPrice(book) = nullopt
        /\ Called("GetSpread") => call[1].result = GetSpread(book)
        /\ Called("GetMidPrice") => call[1].result = GetMidPrice(book)

\* the best bid 10000 was cached, then removed: with bid 9950 and ask 10051
\* the spread is 101 and the mid price 10000
C21_Witness ==
    /\ Called("Update")
    /\ call[1].side = kBuy /\ call[1].price = 10000 /\ call[1].quantity = 0
    /\ call[1].previous # 0
    /\ book.cached_best_bid_ = <<10000>>
    /\ book.ask_prices_ = {10051}
    /\ GetSpread(book) = <<101>>
    /\ GetMidPrice(book) = <<10000>>

\* this step is a call of the member function op; its arguments are in call'
StepCalls(op) == call' # <<>> /\ call'[1].op = op

\* every query of the book b on a side: best price, quantities, count, levels
SideQueries(b, side) ==
    <<IF side = kBuy THEN GetBestBid(b) ELSE GetBestAsk(b),
      [p \in BookPrices |-> GetQuantityAt(b, side, p)],
      GetLevelCount(b, side),
      [n \in 0..MaxTopN |-> GetTopLevels(b, side, n)]>>

\* C22: Clear(side) removes every level of that side and leaves the other
\* side as it was, Clear() removes every level of both sides; after either
\* the cache is invalid and the best price of a cleared side is none, also
\* when a best price was cached before the call
C22_ClearRemovesLevels ==
    [][/\ StepCalls("ClearSide") =>
             LET side == call'[1].side
             IN  /\ SideQueries(book', side) = SideQueries(NewBook, side)
                 /\ SideQueries(book', Opposite(side)) = SideQueries(book, Opposite(side))
                 /\ ~book'.cache_valid_
       /\ StepCalls("Clear") =>
             /\ \A side \in Sides : SideQueries(book', side) = SideQueries(NewBook, side)
             /\ GetSpread(book') = nullopt
             /\ ~book'.cache_valid_]_vars

\* Clear(kSell) emptied the ask side whose best price 10000 was cached and
\* left the two bids
C22_Witness ==
    /\ Called("ClearSide")
    /\ call[1].side = kSell
    /\ book.cached_best_ask_ = <<10000>>
    /\ GetBestAsk(book) = nullopt
    /\ GetLevelCount(book, kSell) = 0
    /\ GetLevelCount(book, kBuy) = 2
    /\ GetBestBid(book) = <<10000>>

\* C23: the update counter starts at 0, grows by exactly 1 on every call of
\* Update, a zero-quantity Update of an absent price included, and is left
\* as it is by Clear(), Clear(side) and every query
C23_UpdateCounterCountsUpdates ==
    /\ book.update_count_ = 0
    /\ [][book'.update_count_ =
             book.update_count_ + (IF StepCalls("Update") THEN 1 ELSE 0)]_vars

\* Clear() emptied a book built by three Update calls, the last one a
\* zero-quantity Update: the counter is still 3
C23_Witness ==
    /\ Called("Clear")
    /\ book.bid_prices_ = {} /\ book.ask_prices_ = {}
    /\ book.update_count_ = 3
    /\ book.cached_best_bid_ = <<9950>>

\* this step is a call of one of the queries
QueryCalled ==
    \/ StepCalls("GetBestBid") \/ StepCalls("GetBestAsk") \/ StepCalls("GetSpread")
    \/ StepCalls("GetMidPrice") \/ StepCalls("GetQuantityAt")
    \/ StepCalls("GetTopLevels") \/ StepCalls("GetLevelCount")

\* C30: a query (GetBestBid, GetBestAsk, GetSpread, GetMidPrice,
\* GetQuantityAt, GetTopLevels, GetLevelCount) changes no level and not the
\* update counter: it leaves the book as it is or, at most, changes the cache
\* members, and every query made again right after it returns what it
\* returned before
C30_QueriesChangeNothing ==
    [][(book' # book /\ QueryCalled) =>
          /\ ~(StepCalls("GetTopLevels") \/ StepCalls("GetQuantityAt")
                \/ StepCalls("GetLevelCount"))
          /\ SidesUnchanged
          /\ book'.update_count_ = book.update_count_
          /\ GetBestBid(book') = GetBestBid(book)
          /\ GetBestAsk(book') = GetBestAsk(book)
          /\ GetSpread(book') = GetSpread(book)
          /\ GetMidPrice(book') = GetMidPrice(book)
          /\ \A side \in Sides : SideQueries(book', side) = SideQueries(book, side)]_vars

\* GetMidPrice was called on a book whose cache an Update had made invalid:
\* the cache is valid again and the two levels and the counter are as before
C30_Witness ==
    /\ Called("GetMidPrice")
    /\ call[1].result = <<10025>>
    /\ book.cache_valid_
    /\ book.update_count_ = 2
    /\ book.bids_ = (10000 :> 100000000)
    /\ book.asks_ = (10051 :> 50000000)

\* C28: each strategy observer is invoked exactly once by the handler run
\* that applies an incremental update, on the book that holds all bid and
\* ask levels of the update: the best prices it read are those of the book
\* the run leaves; it is not invoked for an update that is discarded (stale,
\* or found while unsynchronized) or does not parse, nor by the snapshot
\* bootstrap
C28_StrategiesRunOncePerAppliedUpdate ==
    [][/\ HandlerRuns =>
             IF LiveRun /\ ~Stale(FrameUpdate, last_update_id)
             THEN /\ strategy_calls' = 1
                  /\ book'.cache_valid_
                  /\ book'.cached_best_bid_ =
                        (IF DOMAIN book'.bids_ = {} THEN nullopt
                         ELSE <<MaxOf(DOMAIN book'.bids_)>>)
                  /\ book'.cached_best_ask_ =
                        (IF DOMAIN book'.asks_ = {} THEN nullopt
                         ELSE <<MinOf(DOMAIN book'.asks_)>>)
             ELSE strategy_calls' = 0
       /\ FetchEnds => strategy_calls' = 0
       /\ ~(HandlerRuns \/ FetchEnds) => strategy_calls' = strategy_calls]_vars

\* an update with the bid (99.50, 2.0) and the ask (100.50, 0.5) was applied
\* to a book with a bid at 100.00 and no ask: the strategies ran once and
\* read the best bid 100.00 and the best ask 100.50
C28_Witness ==
    /\ strategy_calls = 1
    /\ handler_pc = "returned"
    /\ handled # <<>>
    /\ handled[1].update.bids = <<(<<Str_99_50, Str_2_0>>)>>
    /\ handled[1].update.asks = <<(<<Str_100_50, Str_0_5>>)>>
    /\ book.cache_valid_
    /\ book.cached_best_bid_ = <<10000>>
    /\ book.cached_best_ask_ = <<10050>>
    /\ DOMAIN book.bids_ = {9950, 10000}
    /\ book.update_count_ = 3

\* C26: a signal the imbalance strategy emits (kBuy, kSell or kNone) is never
\* of the type of the signal it emitted before, and the spread strategy emits
\* 'spread widened' warnings (kWarning) and 'spread normalized' signals
\* (kNone) in strict alternation, the first one a warning
C26_NoDuplicateSignals ==
    [][/\ signal'.imbalance # <<>> =>
             /\ signal'.imbalance[1] \in {kBuy, kSell, kNone}
             /\ signal'.imbalance # emitted.imbalance
       /\ signal'.spread # <<>> =>
             signal'.spread = (IF emitted.spread = <<kWarning>> THEN <<kNone>>
                               ELSE <<kWarning>>)]_vars

\* the spread strategy gave its second warning, after a 'normalized', in the
\* run in which the imbalance strategy emitted a neutral signal
C26_Witness ==
    /\ signal.spread = <<kWarning>>
    /\ spread_strategy.spread_avg_count_ = 12
    /\ spread_strategy.alert_active_
    /\ signal.imbalance = <<kNone>>

\* the total quantity of the d best of the prices of a side of the book b
RECURSIVE BestQuantity(_, _, _, _)
BestQuantity(b, side, prices, d) ==
    IF d = 0 \/ prices = {} THEN 0
    ELSE LET best == IF side = kBuy THEN MaxOf(prices) ELSE MinOf(prices)
         IN  GetQuantityAt(b, side, best) + BestQuantity(b, side, prices \ {best}, d - 1)

\* the total quantity of the top d levels of a side of the book b
TopQuantity(b, side, d) ==
    BestQuantity(b, side, {p \in StrategyPrices(side) : GetQuantityAt(b, side, p) # 0}, d)

\* C27: with BidQty and AskQty the quantities of the top depth levels of the
\* book and imbalance = (BidQty - AskQty) / (BidQty + AskQty), a run of the
\* imbalance strategy emits kBuy when imbalance > 0.3, kSell when imbalance
\* < -0.3 and kNone when |imbalance| < 0.15, each only when its last signal
\* type differs, and then that type becomes its last signal type; when
\* 0.15 <= |imbalance| <= 0.3 or a side is empty it emits nothing and keeps
\* its last signal type
C27_ImbalanceSignalRule ==
    [][(book'.update_count_ = book.update_count_ + 1) =>
          LET depth == imbalance_strategy.depth_
              BidQty == TopQuantity(book', kBuy, depth)
              AskQty == TopQuantity(book', kSell, depth)
              last == imbalance_strategy.last_signal_type_
              quiet == /\ signal'.imbalance = <<>>
                       /\ imbalance_strategy'.last_signal_type_ = last
              emits(type) ==
                  IF last # type
                  THEN /\ signal'.imbalance = <<type>>
                       /\ imbalance_strategy'.last_signal_type_ = type
                  ELSE quiet
          IN  /\ imbalance_strategy'.depth_ = depth
              /\ IF BidQty = 0 \/ AskQty = 0 THEN quiet
                 ELSE IF 10 * (BidQty - AskQty) > 3 * (BidQty + AskQty) THEN emits(kBuy)
                 ELSE IF 10 * (BidQty - AskQty) < -3 * (BidQty + AskQty) THEN emits(kSell)
                 ELSE IF 20 * (BidQty - AskQty) < 3 * (BidQty + AskQty)
                         /\ 20 * (AskQty - BidQty) < 3 * (BidQty + AskQty) THEN emits(kNone)
                 ELSE quiet]_vars

\* the strategy of depth 1 had emitted kSell; then, with best bid quantity
\* 0.13 and best ask quantity 0.07, the imbalance is 0.3 exactly: it emitted
\* nothing and kept kSell, though with both bid levels the imbalance is more
C27_Witness ==
    /\ imbalance_strategy.depth_ = 1
    /\ imbalance_strategy.last_signal_type_ = kSell
    /\ signal.imbalance = <<>>
    /\ book.bids_ = (10000 :> 13000000) @@ (9950 :> 17000000)
    /\ book.asks_ = (10051 :> 7000000)

\* the number of elements of samples that are value
Occurrences(samples, value) == Cardinality({i \in 1..Len(samples) : samples[i] = value})

RECURSIVE TotalRecorded(_)
\* the Record calls of the threads 1..t that returned
TotalRecorded(t) == IF t = 0 THEN 0 ELSE recorded[t] + TotalRecorded(t - 1)

\* C29: with threads calling Record, Count, Calculate and Reset concurrently,
\* samples_ holds one sample for each Record call that returned since it
\* was last cleared, and one for a call that has pushed and not yet
\* returned, no more and no less; and with no Reset the value Count
\* returns, and the count of Calculate, is the number of Record calls that
\* have returned
C29_NoSampleLostOrDuplicated ==
    /\ \A t \in Threads :
          Occurrences(samples_, t) =
              recorded[t] + (IF threads[t].pc = "record_return" THEN 1 ELSE 0)
    /\ Len(samples_) =
          TotalRecorded(MaxThreads) + Cardinality({t \in Threads : threads[t].pc = "record_return"})
    /\ \A t \in Threads :
          /\ threads[t].pc = "count_return" /\ ~reset_seen
                => threads[t].result = <<TotalRecorded(MaxThreads)>>
          /\ threads[t].pc = "calculate_return" /\ ~reset_seen
                => threads[t].result[1].count = TotalRecorded(MaxThreads)

\* Count is about to return 3 after both threads recorded and no Reset
C29_Witness ==
    /\ ~reset_seen
    /\ threads[1].pc = "count_return"
    /\ threads[1].result = <<3>>
    /\ samples_ = <<1, 2, 2>>
    /\ recorded = (1 :> 1) @@ (2 :> 2)

\* a handler is in execution: a frame is being handled
HandlerInExecution == handler_pc \in {"fetching", "returned"} \/ buffer_ # <<>>

\* C24: at most one read is outstanding and none while a frame is handled;
\* main is behind Disconnect only when the I/O thread has finished; every
\* step that changes the book, fetches, runs the strategies, records a
\* latency or moves the handler is a step of the running I/O thread and
\* none of main, taken before main reads the book; and main reads the book
\* only when the I/O thread has finished
C24_OneThreadOwnsTheBook ==
    /\ [](/\ reads_outstanding <= 1
          /\ HandlerInExecution => reads_outstanding = 0
          /\ main_pc \in {"stats", "done"} => io_thread_ = "finished")
    /\ [][/\ handler_vars' # handler_vars \/ strategy_vars' # strategy_vars
               => /\ io_thread_ = "running"
                  /\ io_thread_' = "running"
                  /\ main_pc' = main_pc
                  /\ main_pc \notin {"connect", "stats", "done"}
          /\ call' # call => io_thread_ = "finished" /\ handler_vars' = handler_vars]_vars

\* main reads the book after the I/O thread synchronized it, applied an
\* update and ended
C24_Witness ==
    /\ main_pc = "done"
    /\ call # <<>>
    /\ call[1].op = "GetUpdateCount"
    /\ call[1].result >= 3
    /\ io_thread_ = "finished"
    /\ synchronized
    /\ last_update_id = 110

\* a frame that is no depth update, or one that fails structural validation
BadFrame(frame) ==
    \/ ~ParseDepthUpdate(frame, NewDepthUpdate(0)).ok
    \/ MalformedUpdate(frame)

\* C25: the handler run on any frame returns or waits in the fetch, and the
\* I/O thread lives on; a bad frame changes no level, last_update_id or
\* synchronized; a fetch that fails ends in a return with the levels and
\* last_update_id as they were and the book not synchronized; and after the
\* return the next read is issued while the client is running
C25_BadMessageHarmless ==
    [][/\ HandlerRuns => handler_pc' \in {"returned", "fetching"} /\ io_thread_' = "running"
       /\ (HandlerRuns /\ BadFrame(buffer_[1]))
             => /\ LevelsUnchanged
                /\ last_update_id' = last_update_id
                /\ synchronized' = synchronized
       /\ (handler_pc = "fetching" /\ res # <<>> /\ handler_pc' # handler_pc)
             => handler_pc' = "returned" /\ io_thread_' = "running"
       /\ (FetchEnds /\ FailedFetch(res[1]))
             => /\ LevelsUnchanged
                /\ last_update_id' = last_update_id
                /\ ~synchronized'
       /\ (handler_pc = "returned" /\ running_ /\ handler_pc' # handler_pc)
             => handler_pc' = "idle" /\ reads_outstanding' = 1]_vars

\* the place of the '.' of str, or one past its end
DotAt(str) ==
    IF \E i \in 1..Len(str) : str[i] = "."
    THEN CHOOSE i \in 1..Len(str) : str[i] = "."
    ELSE Len(str) + 1

RECURSIVE NumberOf(_)
\* the number a string of digits writes; the empty string writes 0
NumberOf(digits) ==
    IF digits = <<>> THEN 0
    ELSE NumberOf(SubSeq(digits, 1, Len(digits) - 1)) * 10 + DigitValue(digits[Len(digits)])

RECURSIVE Pow10(_)
Pow10(d) == IF d = 0 THEN 1 ELSE 10 * Pow10(d - 1)

\* the value of the decimal string str times 10^d, truncated toward zero
ScaledValue(str, d) ==
    LET whole == SubSeq(str, 1, DotAt(str) - 1)
        fraction == SubSeq(str, DotAt(str) + 1, Len(str))
        kept == [i \in 1..d |-> IF i <= Len(fraction) THEN fraction[i] ELSE "0"]
    IN  NumberOf(whole) * Pow10(d) + NumberOf(kept)

\* C37: for a value v >= 0 and d >= 1 decimals FixedToString(v, d) has one
\* '.', followed by exactly d digits, and StringToFixed reads v back from it
C37_FixedPointRoundTrip ==
    (Called("FixedToString") /\ call[1].value >= 0 /\ call[1].decimals >= 1) =>
        LET str == call[1].result
            d == call[1].decimals
        IN  /\ Cardinality({i \in 1..Len(str) : str[i] = "."}) = 1
            /\ DotAt(str) = Len(str) - d
            /\ DotAt(str) > 1
            /\ \A i \in 1..Len(str) : i # DotAt(str) => IsDigit(str[i])
            /\ StringToFixed(str, d) = call[1].value
            /\ ScaledValue(str, d) = call[1].value

\* 3000050 with 2 decimals was formatted as "30000.50"
C37_Witness ==
    /\ Called("FixedToString")
    /\ call[1].value = 3000050
    /\ call[1].decimals = 2
    /\ call[1].result = <<"3", "0", "0", "0", "0", ".", "5", "0">>

\* C38: for a string s of digits with at most one '.' and d >= 0 decimals
\* StringToFixed(s, d) is the value of s times 10^d truncated toward zero
C38_StringToFixedScales ==
    Called("StringToFixed") =>
        call[1].result = ScaledValue(call[1].string, call[1].decimals)

\* the five places Calculate reads in its sorted copy of n samples
StatIndexes(n) ==
    {MedianIndex(n), PercentileIndex(n, 50, 100), PercentileIndex(n, 90, 100),
     PercentileIndex(n, 99, 100), PercentileIndex(n, 999, 1000)}

\* what Calculate returned, set against the samples it was called on
CalculateResultSound ==
    Called("Calculate") =>
        LET stats == call[1].result
            n == Len(samples_)
        IN  /\ stats.count = n
            /\ n = 0 =>
                /\ stats.min_ns = 0 /\ stats.max_ns = 0 /\ stats.mean_ns.sum = 0
                /\ stats.median_ns = 0 /\ stats.p50_ns = 0 /\ stats.p90_ns = 0
                /\ stats.p99_ns = 0 /\ stats.p999_ns = 0
            /\ n >= 1 =>
                /\ \A i \in 1..n : stats.min_ns <= samples_[i] /\ samples_[i] <= stats.max_ns
                /\ \E i \in 1..n : stats.min_ns = samples_[i]
                /\ \E i \in 1..n : stats.max_ns = samples_[i]
                /\ stats.min_ns <= stats.p50_ns
                /\ stats.p50_ns = stats.median_ns
                /\ stats.median_ns <= stats.p90_ns
                /\ stats.p90_ns <= stats.p99_ns
                /\ stats.p99_ns <= stats.p999_ns
                /\ stats.p999_ns <= stats.max_ns
            /\ \A m \in 1..MaxCount : StatIndexes(m) \subseteq 0..(m - 1)

\* C39: Calculate on no samples returns count 0 and zeros; on n >= 1 samples
\* every index it reads is within 0..n-1, min <= p50 = median <= p90 <= p99
\* <= p999 <= max, and the samples stay as they were recorded
C39_CalculateSound ==
    /\ []CalculateResultSound
    /\ [][Called("Calculate")' => samples_' = samples_]_vars

\* Calculate ran on four samples that were not recorded in ascending order
C39_Witness ==
    /\ Called("Calculate")
    /\ samples_ = <<900, 250, 300, 250>>
    /\ call[1].result.count = 4
    /\ call[1].result.min_ns = 250
    /\ call[1].result.median_ns = 300
    /\ call[1].result.p999_ns = 900

\* the book the step leaves has a level on each side
BothSidesAfter == book'.bid_prices_ # {} /\ book'.ask_prices_ # {}

\* C36: the spread strategy counts exactly the updates that leave both sides
\* non-empty and emits nothing before the tenth of them; an update that
\* leaves a side empty changes none of its members and emits nothing
C36_SpreadNeedsTenSamples ==
    /\ spread_strategy.spread_avg_count_ = 0
    /\ [][/\ spread_strategy'.spread_avg_count_ =
                spread_strategy.spread_avg_count_ + (IF BothSidesAfter THEN 1 ELSE 0)
          /\ ~BothSidesAfter => spread_strategy' = spread_strategy /\ signal'.spread = <<>>
          /\ BothSidesAfter => spread_strategy'.last_spread_pct_ = SpreadPct(book')
          /\ signal'.spread # <<>> => spread_strategy'.spread_avg_count_ >= 10]_vars

\* the warning came with the tenth sample, after two updates that left a
\* side empty
C36_Witness ==
    /\ spread_strategy.spread_avg_count_ = 10
    /\ signal.spread = <<kWarning>>
    /\ book.update_count_ = 12
    /\ spread_strategy.alert_active_

\* the last n entries of a sequence, all of it when it is shorter
LastEntries(entries, n) ==
    SubSeq(entries, Len(entries) - Min(n, Len(entries)) + 1, Len(entries))

\* C31: whenever no Add is in progress recent_signals holds the most recent
\* min(k, 5) of the k entries added, in the order they were added; inside an
\* Add it holds at most one entry more
C31_SignalLogKeepsLatestFive ==
    /\ Len(recent_signals) <= kMaxSignals + 1
    /\ recent_signals = LastEntries(added, Len(recent_signals))
    /\ log_mutex = 0 =>
          /\ Len(recent_signals) = Min(Len(added), kMaxSignals)
          /\ Len(recent_signals) <= kMaxSignals
    /\ Cardinality(Adding) <= 1
    /\ \A t \in Adding : log_mutex = t

\* seven entries were added by two threads and the first two were evicted
C31_Witness ==
    /\ log_mutex = 0
    /\ Len(added) = 7
    /\ Len(recent_signals) = 5
    /\ recent_signals = SubSeq(added, 3, 7)
    /\ \E i, j \in 1..7 : added[i][1] = "SpreadMonitor" /\ added[j][1] = "Imbalance"
    /\ added[1] # added[6]

\* this step invokes the depth-update callback
DepthUpdateCallback == HandlerRuns /\ ParseDepthUpdate(buffer_[1], NewDepthUpdate(0)).ok

\* the operations of the chain before the i-th
ChainBefore(i) == SubSeq(Chain, 1, i - 1)

ReadLoopEnded == read_error # <<>>

\* C33: once a read has returned an error the client does not report
\* connected and the disconnected or the error callback has been invoked;
\* while the client is running and reports connected, a read is outstanding
\* or a frame is being handled
C33_ReadErrorDisconnects ==
    /\ ReadLoopEnded =>
          /\ ~connected_
          /\ invoked \cap {"disconnected", "error"} # {}
    /\ (running_ /\ connected_) => (reads_outstanding > 0 \/ HandlerInExecution)

\* this step is a call of the user
UserCalls(op) == call' # call /\ call'[1].op = op

\* the members of the client and what its handlers work on
ClientState ==
    <<running_, connected_, io_thread_, ioc_stopped, stage, steps, invoked, read_error,
      io_threads, disconnect_pc, reads_outstanding, handler_vars>>

\* C34: Connect while the client is running and Disconnect while it is not
\* change nothing; a thread is constructed only when none is left unjoined,
\* so at most one I/O thread exists; and when Disconnect returns running_ is
\* false and the I/O thread has finished and is joined
C34_ConnectDisconnectIdempotent ==
    /\ [](/\ io_threads \in {0, 1}
          /\ io_thread_ = "running" => io_threads = 1
          /\ (main_pc = "user" /\ ~running_) =>
                io_threads = 0 /\ io_thread_ \in {"none", "finished"})
    /\ [][/\ (UserCalls("Connect") /\ running_) =>
                ClientState' = ClientState /\ main_pc' = main_pc
          /\ (UserCalls("Disconnect") /\ ~running_) =>
                ClientState' = ClientState /\ main_pc' = main_pc
          /\ io_threads' > io_threads =>
                UserCalls("Connect") /\ ~running_ /\ io_threads = 0
          /\ (main_pc = "disconnect" /\ main_pc' # main_pc) =>
                /\ ~running_'
                /\ io_thread_ = "finished"
                /\ io_thread_' = "finished"
                /\ io_threads' = 0]_vars

\* the user called Connect, Connect again while the client was running, and
\* the one I/O thread streams
C34_Witness ==
    /\ call = <<[op |-> "Connect", n |-> 2, running |-> TRUE]>>
    /\ running_
    /\ io_thread_ = "running"
    /\ io_threads = 1
    /\ stage = "open"
    /\ reads_outstanding = 1

\* C35: once g_running is false main gets behind Disconnect, with the I/O
\* thread finished
C35_ShutdownTerminates ==
    (~g_running) ~> (main_pc \in {"stats", "done"} /\ io_thread_ = "finished")

====
